---------------------------- MODULE Spec2Model ----------------------------
(***************************************************************************)
(* A model of the shroom-wz crate: the crypto (key stream, offset          *)
(* obfuscation, version hash), the scalar codec (WzInt, WzLong, WzStr),    *)
(* the JSON form of WzValue, and the archive reader with its image         *)
(* traverser.                                                              *)
(*                                                                         *)
(* Number representation.  TLC's integers are 32-bit signed, so a u32, an  *)
(* i32 on the wire, a u64 and an i64 are little-endian byte sequences      *)
(* (<<b0, b1, b2, b3>>, b0 the low byte), which is also how the program    *)
(* reads and writes them.  Arithmetic on them wraps at the width of the    *)
(* sequence, as the program's Wrapping / wrapping_* operations do.         *)
(***************************************************************************)
EXTENDS Integers, Sequences, FiniteSets, TLC

VARIABLES
    stage,      \* position of the driver that calls the operations
    input,      \* the arguments the driver was given
    output,     \* what the operations called so far returned
    crypto,     \* the WzCrypto the operations use, or None before it is built
    file,       \* the bytes of the seekable input (an archive)
    rdr,        \* the WzReader: [pos, data_offset], or None
    q,          \* WzImgTraverser.q: the queue of (root_name, WzDirNode)
    items       \* what the traverser's next() returned, in order

vars == <<stage, input, output, crypto, file, rdr, q, items>>

None == [none |-> TRUE]

Ok(v) == [ok |-> TRUE, v |-> v]

Err(e) == [ok |-> FALSE, err |-> e]

\* `let x = v;` followed by F(x): v is evaluated once, whatever F does with x
Bind(v, F(_)) == CHOOSE out \in {F(x) : x \in {v}} : TRUE

\* `let r = res?;` followed by F(r): an error ends the function with that
\* error
Try(res, F(_)) == CHOOSE out \in {IF r.ok THEN F(r) ELSE r : r \in {res}} : TRUE

-----------------------------------------------------------------------------
(* Bytes and words *)

RECURSIVE Pow2(_)
Pow2(n) == IF n = 0 THEN 1 ELSE 2 * Pow2(n - 1)

RECURSIVE BitXor(_, _)
BitXor(a, b) ==
    IF a = 0 THEN b
    ELSE IF b = 0 THEN a
    ELSE (((a % 2) + (b % 2)) % 2) + 2 * BitXor(a \div 2, b \div 2)

\* x ^ y on two bytes
Xor8Table == [a \in 0..255 |-> [b \in 0..255 |-> BitXor(a, b)]]

Xor8(a, b) == Xor8Table[a][b]

\* x ^ y on two sequences of the same length, element by element
XorSeq(a, b) == [i \in 1..Len(a) |-> Xor8(a[i], b[i])]

\* n.to_le_bytes() for 0 <= n < 2^31, in k bytes
Le(n, k) == [i \in 1..k |-> (n \div Pow2(8 * (i - 1))) % 256]

U32(n) == Le(n, 4)

\* the value of a byte sequence that is below 2^31
RECURSIVE LeVal(_)
LeVal(w) == IF w = <<>> THEN 0 ELSE w[1] + 256 * LeVal(Tail(w))

Fits31(w) ==
    /\ \A i \in 5..Len(w) : w[i] = 0
    /\ (Len(w) >= 4 => w[4] < 128)

\* a < b on two words of the same width
RECURSIVE LtW(_, _)
LtW(a, b) ==
    IF a = <<>> THEN FALSE
    ELSE LET n == Len(a) IN
         IF a[n] # b[n] THEN a[n] < b[n]
         ELSE LtW(SubSeq(a, 1, n - 1), SubSeq(b, 1, n - 1))

RECURSIVE AddCarry(_, _, _)
AddCarry(a, b, c) ==
    IF a = <<>> THEN <<>>
    ELSE LET s == a[1] + b[1] + c IN
         <<s % 256>> \o AddCarry(Tail(a), Tail(b), s \div 256)

\* a.wrapping_add(b)
AddW(a, b) == AddCarry(a, b, 0)

NotW(a) == [i \in 1..Len(a) |-> 255 - a[i]]

\* a.wrapping_sub(b)
SubW(a, b) == AddCarry(a, NotW(b), 1)

\* whether a + b overflows the width
AddOverflows(a, b) == LtW(AddW(a, b), a)

RECURSIVE ColSum(_, _, _, _)
ColSum(a, b, k, i) ==
    IF i > k THEN 0 ELSE a[i] * b[k - i + 1] + ColSum(a, b, k, i + 1)

RECURSIVE MulCarry(_, _, _, _)
MulCarry(a, b, k, c) ==
    IF k > Len(a) THEN <<>>
    ELSE LET s == ColSum(a, b, k, 1) + c IN
         <<s % 256>> \o MulCarry(a, b, k + 1, s \div 256)

\* a.wrapping_mul(b)
MulW(a, b) == MulCarry(a, b, 1, 0)

\* u32::rotate_left(w, n), 0 <= n < 32
RotL32(w, n) ==
    LET qb == n \div 8
        r  == n % 8
        c  == [i \in 1..4 |-> w[((i - 1 - qb + 4) % 4) + 1]]
    IN  [i \in 1..4 |->
            ((c[i] * Pow2(r)) % 256) + (c[((i + 2) % 4) + 1] \div Pow2(8 - r))]

\* i8 / i32 <-> their two's-complement bytes
I8Byte(v) == (v + 256) % 256

ByteI8(b) == IF b >= 128 THEN b - 256 ELSE b

I32Bytes(v) ==
    IF v >= 0 THEN Le(v, 4)
    ELSE LET m == -(v + 1) IN NotW(Le(m, 4))

BytesI32(w) ==
    IF w[4] < 128 THEN LeVal(w) ELSE -LeVal(NotW(w)) - 1

-----------------------------------------------------------------------------
(* version.rs *)

\* itoa: the ASCII decimal digits of v
RECURSIVE itoa(_)
itoa(v) == IF v < 10 THEN <<48 + v>> ELSE itoa(v \div 10) \o <<48 + (v % 10)>>

\* one step of the fold: acc <<= 5; acc + (c as u32) + 1.  The shift drops the
\* bits above 32; the sum is returned unreduced so that an overflow shows.
hash_step_no_inc(acc, c) == ((acc % 134217728) * 32) + c

hash_step(acc, c) == ((acc % 134217728) * 32) + c + 1

RECURSIVE hash_fold(_, _)
hash_fold(acc, s) ==
    IF s = <<>> THEN acc ELSE hash_fold(hash_step(acc, s[1]), Tail(s))

version_hash(v) == hash_fold(0, itoa(v))

RECURSIVE encrypt_fold(_, _, _)
encrypt_fold(acc, hash, i) ==
    IF i < 0 THEN acc
    ELSE encrypt_fold(BitXor(acc, (hash \div Pow2(i * 8)) % 256), hash, i - 1)

encrypt_version(hash) == encrypt_fold(255, hash, 3)

encrypted_version(v) == encrypt_version(version_hash(v))

-----------------------------------------------------------------------------
(* keys.rs and crypto.rs *)

WZ_IV_LEN == 16

WZ_KEY_BUFFER_LEN == WZ_IV_LEN * 256

\* The key files (keys/*.bin) are binary and read with include_bytes!.
GMS_WZ_IV == [i \in 1..WZ_IV_LEN |-> <<77, 35, 199, 43>>[((i - 1) % 4) + 1]]

SEA_WZ_IV == [i \in 1..WZ_IV_LEN |-> <<185, 125, 99, 233>>[((i - 1) % 4) + 1]]

DEFAULT_WZ_IV == [i \in 1..WZ_IV_LEN |-> 0]

WZ_OFFSET_MAGIC == <<109, 63, 28, 88>>

Regions == {"GMS", "SEA", "Other", "BmsSrv"}

\* WzRegion::crypto_context
crypto_context(region) ==
    [initial_iv   |-> CASE region = "GMS" -> GMS_WZ_IV
                        [] region = "SEA" -> SEA_WZ_IV
                        [] OTHER -> DEFAULT_WZ_IV,
     offset_magic |-> WZ_OFFSET_MAGIC]

\* The block cipher is the aes crate's Aes256 under the fixed key of
\* keys/aes.bin: a permutation of 16-byte blocks.  The crate is outside the
\* repository; a fixed permutation of blocks stands for it (a byte
\* substitution, a shuffle of the positions and a round constant).
AesSub(b) == (b * 167 + 73) % 256

next_xor_key(key) ==
    <<>> \o [i \in 1..WZ_IV_LEN |->
                (AesSub(key[((5 * (i - 1)) % WZ_IV_LEN) + 1]) + 29 * i) % 256]

\* n successive key blocks after `key`: next_xor_key applied 1, 2, ..., n times
RECURSIVE KeyBlocks(_, _)
KeyBlocks(key, n) ==
    IF n = 0 THEN <<>>
    ELSE IF n = 1 THEN <<next_xor_key(key)>>
    ELSE LET h    == n \div 2
             left == KeyBlocks(key, h)
         IN  left \o KeyBlocks(left[h], n - h)

\* fill_key::<N>: the chunks of the buffer are the successive key blocks
fill_key(iv, N) ==
    LET blocks == KeyBlocks(iv, N \div WZ_IV_LEN)
    IN  [i \in 1..N |-> blocks[((i - 1) \div WZ_IV_LEN) + 1][((i - 1) % WZ_IV_LEN) + 1]]

\* WzCrypto::new
WzCrypto_new(ctx, version, data_offset) ==
    [iv             |-> ctx.initial_iv,
     xor_key_buffer |-> fill_key(ctx.initial_iv, WZ_KEY_BUFFER_LEN),
     version_hash   |-> U32(version_hash(version)),
     data_offset    |-> data_offset,
     offset_magic   |-> ctx.offset_magic]

\* WzCrypto::from_cfg
from_cfg(cfg, data_offset) ==
    WzCrypto_new(crypto_context(cfg.region), cfg.version, data_offset)

transform_small(c, buf) ==
    [i \in 1..Len(buf) |-> Xor8(buf[i], c.xor_key_buffer[i])]

\* the key not advanced before the tail: the tail reuses the last chunk's block
transform_large_stale_tail(c, buf) ==
    LET n      == Len(buf)
        chunks == n \div WZ_IV_LEN
        keys   == KeyBlocks(c.iv, chunks + 1)
    IN  [i \in 1..n |->
            LET k == (i - 1) \div WZ_IV_LEN IN
            Xor8(buf[i], keys[IF k = chunks THEN chunks ELSE k + 1][((i - 1) % WZ_IV_LEN) + 1])]

\* into_chunks::<U16> gives the whole 16-byte chunks and the tail; chunk k is
\* xored with the k-th key block and the tail with the start of the next one
transform_large(c, buf) ==
    LET n      == Len(buf)
        chunks == n \div WZ_IV_LEN
        keys   == KeyBlocks(c.iv, chunks + 1)
    IN  [i \in 1..n |->
            Xor8(buf[i], keys[((i - 1) \div WZ_IV_LEN) + 1][((i - 1) % WZ_IV_LEN) + 1])]

transform(c, buf) ==
    IF Len(buf) <= WZ_KEY_BUFFER_LEN THEN transform_small(c, buf)
    ELSE transform_large(c, buf)

\* `checked` is the build's overflow-checks setting: with it an overflowing
\* `-` or `*` on plain integers panics, without it the operation wraps.
offset_key_at(c, pos, data_offset, checked) ==
    IF checked /\ LtW(pos, data_offset) THEN Err("overflow")
    ELSE LET off0 == NotW(SubW(pos, data_offset))
             off1 == MulW(off0, c.version_hash)
             off  == SubW(off1, c.offset_magic)
         IN  Ok(RotL32(off, off[1] % 32))

\* self.data_offset * 2
data_offset_x2(c, checked) ==
    IF checked /\ c.data_offset[4] >= 128 THEN Err("overflow")
    ELSE Ok(AddW(c.data_offset, c.data_offset))

\* the data offset added once instead of twice
decrypt_offset_once(c, encrypted_offset, pos, checked) ==
    LET k == offset_key_at(c, pos, c.data_offset, checked)
    IN  IF ~k.ok THEN k ELSE Ok(AddW(XorSeq(k.v, encrypted_offset), c.data_offset))

decrypt_offset(c, encrypted_offset, pos, checked) ==
    LET k == offset_key_at(c, pos, c.data_offset, checked)
        d == data_offset_x2(c, checked)
    IN  IF ~k.ok THEN k
        ELSE IF ~d.ok THEN d
        ELSE Ok(AddW(XorSeq(k.v, encrypted_offset), d.v))

encrypt_offset(c, off, pos, checked) ==
    LET d == data_offset_x2(c, checked)
    IN  IF ~d.ok THEN d
        ELSE LET k == offset_key_at(c, pos, c.data_offset, checked)
             IN  IF ~k.ok THEN k ELSE Ok(XorSeq(SubW(off, d.v), k.v))

\* offset_link: self.data_offset as u64 + off as u64
offset_link(c, off) == AddW(c.data_offset \o <<0, 0, 0, 0>>, off \o <<0, 0, 0, 0>>)

-----------------------------------------------------------------------------
(* The driver of the version hash: hash a version, then encrypt the hash *)

U16_MAX == 65535

ArchiveIdle == file = <<>> /\ rdr = None /\ q = <<>> /\ items = <<>>

ArchiveUnchanged == UNCHANGED <<file, rdr, q, items>>

InitVersion ==
    /\ stage = "start"
    /\ input \in [version : 0..U16_MAX]
    /\ output = None
    /\ crypto = None
    /\ ArchiveIdle

\* WzVersion::hash
HashVersion ==
    /\ stage = "start"
    /\ output' = [hash |-> version_hash(input.version)]
    /\ stage' = "hashed"
    /\ UNCHANGED <<input, crypto>>
    /\ ArchiveUnchanged

\* encrypt_version on the hash
EncryptVersion ==
    /\ stage = "hashed"
    /\ output' = [hash |-> output.hash, enc |-> encrypt_version(output.hash)]
    /\ stage' = "encrypted"
    /\ UNCHANGED <<input, crypto>>
    /\ ArchiveUnchanged

NextVersion == HashVersion \/ EncryptVersion

SpecVersion == InitVersion /\ [][NextVersion]_vars

\* the digits of v weighted by powers of 32, lowest digit first
RECURSIVE DigitSum(_, _)
DigitSum(v, w) ==
    ((v % 10) + 49) * w + (IF v < 10 THEN 0 ELSE DigitSum(v \div 10, w * 32))

\* C6: version_hash(v) is the fold acc = (acc << 5) + byte + 1 over the ASCII
\* decimal digits of v, which is the sum of (digit + 49) * 32^k over the digits;
\* it stays within 32 bits for every u16 version; the encrypted version is
\* (0xFF ^ (h>>24) ^ (h>>16) ^ (h>>8) ^ h) & 0xFF; version 95 hashes to 1910
\* and encrypts to 142.
C6_VersionHash ==
    /\ stage \in {"hashed", "encrypted"} =>
          /\ output.hash = DigitSum(input.version, 1)
          /\ output.hash >= 0
          /\ output.hash \div 65536 < 65536
          /\ (input.version = 95 => output.hash = 1910)
    /\ stage = "encrypted" =>
          /\ LET h == output.hash IN
             output.enc =
                BitXor(255, BitXor(h \div 16777216,
                    BitXor(h \div 65536, BitXor(h \div 256, h)))) % 256
          /\ (output.hash = 1910 => output.enc = 142)

C6_Witness ==
    /\ stage = "encrypted"
    /\ input.version = 95
    /\ output.hash = 1910
    /\ output.enc = 142

-----------------------------------------------------------------------------
(* The driver of the offset obfuscation: build a crypto, encrypt an offset  *)
(* for a position, decrypt the result at the same position                  *)

W_MAX == <<255, 255, 255, 255>>

W_HIGH == <<0, 0, 0, 128>>

OffsetPositions == {U32(0), U32(60), U32(89), U32(4681), W_MAX}

OffsetValues == {U32(0), U32(4681), W_HIGH, W_MAX}

OffsetDataOffsets == {U32(0), U32(60), U32(2147483647), W_HIGH}

OffsetVersions == {95, U16_MAX}

OffsetMagics == {WZ_OFFSET_MAGIC, W_MAX}

InitOffset ==
    /\ stage = "start"
    /\ input \in [pos : OffsetPositions, offset : OffsetValues,
                  data_offset : OffsetDataOffsets, version : OffsetVersions,
                  magic : OffsetMagics, region : {"GMS"}, checked : BOOLEAN]
    /\ output = None
    /\ crypto = None
    /\ ArchiveIdle

\* WzCrypto::new with the region's IV and the given offset magic
BuildCrypto ==
    /\ stage = "start"
    /\ crypto' = WzCrypto_new(
           [initial_iv   |-> crypto_context(input.region).initial_iv,
            offset_magic |-> input.magic],
           input.version, input.data_offset)
    /\ stage' = "built"
    /\ UNCHANGED <<input, output>>
    /\ ArchiveUnchanged

EncryptOffset ==
    /\ stage = "built"
    /\ output' = [enc |-> encrypt_offset(crypto, input.offset, input.pos, input.checked)]
    /\ stage' = "encrypted"
    /\ UNCHANGED <<input, crypto>>
    /\ ArchiveUnchanged

DecryptOffset ==
    /\ stage = "encrypted"
    /\ output.enc.ok
    /\ output' = [enc |-> output.enc,
                  dec |-> decrypt_offset(crypto, output.enc.v, input.pos, input.checked)]
    /\ stage' = "decrypted"
    /\ UNCHANGED <<input, crypto>>
    /\ ArchiveUnchanged

NextOffset == BuildCrypto \/ EncryptOffset \/ DecryptOffset

SpecOffset == InitOffset /\ [][NextOffset]_vars

\* the arguments for which no plain subtraction or multiplication overflows
OffsetInRange ==
    /\ ~LtW(input.pos, input.data_offset)
    /\ input.data_offset[4] < 128

\* C1: for pos, offset, data_offset, version and magic in range,
\* decrypt_offset(encrypt_offset(offset, pos), pos) = offset on a crypto built
\* with that data_offset, version and magic.
C1_OffsetRoundTrip ==
    OffsetInRange =>
        /\ stage = "encrypted" => output.enc.ok
        /\ stage = "decrypted" => output.dec = Ok(input.offset)

C1_Witness ==
    /\ stage = "decrypted"
    /\ input.version = 95 /\ input.magic = WZ_OFFSET_MAGIC
    /\ input.data_offset = U32(60) /\ input.offset = U32(4681) /\ input.pos = U32(89)
    /\ output.enc.v # input.offset
    /\ output.dec = Ok(U32(4681))

-----------------------------------------------------------------------------
(* The driver of the stream transform: build a crypto, transform a first   *)
(* buffer (so that an earlier call exists), then transform a buffer twice  *)

TransformOver == 17

TransformSeeds == 2

TransformLens ==
    {0, 1, WZ_IV_LEN, WZ_IV_LEN + 1, WZ_KEY_BUFFER_LEN - 1, WZ_KEY_BUFFER_LEN,
     WZ_KEY_BUFFER_LEN + 1, WZ_KEY_BUFFER_LEN + WZ_IV_LEN,
     WZ_KEY_BUFFER_LEN + TransformOver}

\* a buffer of n bytes
Pattern(seed, n) == [i \in 1..n |-> (i * (seed * 2 + 1) + seed * 37) % 256]

InitTransform ==
    /\ stage = "start"
    /\ input \in [region : {"GMS", "Other"}, len : TransformLens,
                  seed : 1..TransformSeeds, earlier : {0, WZ_KEY_BUFFER_LEN + 1}]
    /\ output = None
    /\ crypto = None
    /\ ArchiveIdle

BuildTransformCrypto ==
    /\ stage = "start"
    /\ crypto' = from_cfg([region |-> input.region, version |-> 95], U32(0))
    /\ stage' = "built"
    /\ UNCHANGED <<input, output>>
    /\ ArchiveUnchanged

\* transform takes &self: the crypto is not written
EarlierTransform ==
    /\ stage = "built"
    /\ output' = [earlier |-> transform(crypto, Pattern(0, input.earlier))]
    /\ stage' = "warm"
    /\ UNCHANGED <<input, crypto>>
    /\ ArchiveUnchanged

FirstTransform ==
    /\ stage = "warm"
    /\ output' = [once |-> transform(crypto, Pattern(input.seed, input.len))]
    /\ stage' = "once"
    /\ UNCHANGED <<input, crypto>>
    /\ ArchiveUnchanged

SecondTransform ==
    /\ stage = "once"
    /\ output' = [once |-> output.once, twice |-> transform(crypto, output.once)]
    /\ stage' = "twice"
    /\ UNCHANGED <<input, crypto>>
    /\ ArchiveUnchanged

NextTransform ==
    BuildTransformCrypto \/ EarlierTransform \/ FirstTransform \/ SecondTransform

SpecTransform == InitTransform /\ [][NextTransform]_vars

\* byte i of the key stream that starts at the IV
StreamByte(iv, blocks, i) == blocks[((i - 1) \div WZ_IV_LEN) + 1][((i - 1) % WZ_IV_LEN) + 1]

\* C2: two successive transform calls recover the original bytes, below, at
\* and above the 4096-byte key buffer, and the output of a call is the buffer
\* xored with the key stream that starts at the IV of the crypto's region,
\* whatever was transformed before.
C2_TransformInvolution ==
    /\ stage = "twice" => output.twice = Pattern(input.seed, input.len)
    /\ stage \in {"once", "twice"} =>
          LET iv     == crypto_context(input.region).initial_iv
              blocks == KeyBlocks(iv, (input.len \div WZ_IV_LEN) + 1)
              buf    == Pattern(input.seed, input.len)
          IN  /\ Len(output.once) = input.len
              /\ \A i \in 1..input.len :
                    output.once[i] = BitXor(buf[i], StreamByte(iv, blocks, i))

C2_Witness ==
    /\ stage = "twice"
    /\ input.len > WZ_KEY_BUFFER_LEN
    /\ input.len % WZ_IV_LEN # 0
    /\ input.earlier > WZ_KEY_BUFFER_LEN
    /\ output.once # output.twice
    /\ output.twice = Pattern(input.seed, input.len)

-----------------------------------------------------------------------------
(* ty.rs: the scalar codec.  A reader is the input's bytes and a position;  *)
(* a read returns the value and the position after it, or an error.         *)

Got(v, pos) == [ok |-> TRUE, v |-> v, pos |-> pos]

\* Read::read_exact of n bytes at pos
read_exact(data, pos, n) ==
    IF n >= 0 /\ pos + n <= Len(data)
    THEN Got(SubSeq(data, pos + 1, pos + n), pos + n)
    ELSE Err("eof")

\* i8::read_options
read_i8(data, pos) ==
    LET r == read_exact(data, pos, 1) IN
    IF r.ok THEN Got(ByteI8(r.v[1]), r.pos) ELSE r

\* i32::read_options, little endian
read_i32(data, pos) ==
    LET r == read_exact(data, pos, 4) IN
    IF r.ok THEN Got(BytesI32(r.v), r.pos) ELSE r

\* u32::read_options, little endian: the four bytes
read_u32(data, pos) == read_exact(data, pos, 4)

\* i8::try_from(v) on an i32
TryI8(v) == IF -128 <= v /\ v <= 127 THEN Ok(v) ELSE Err("out of range")

\* -128 written in the short form, as any other i8
WzInt_write_all_i8(v) ==
    LET t == TryI8(v) IN
    IF t.ok THEN <<I8Byte(t.v)>> ELSE <<I8Byte(-128)>> \o I32Bytes(v)

\* BinWrite for WzInt: the bytes written
WzInt_write(v) ==
    LET t == TryI8(v) IN
    IF t.ok /\ t.v # -128 THEN <<I8Byte(t.v)>>
    ELSE <<I8Byte(-128)>> \o I32Bytes(v)

\* BinRead for WzInt
WzInt_read(data, pos) ==
    LET f == read_i8(data, pos) IN
    IF ~f.ok THEN f
    ELSE IF f.v = -128 THEN read_i32(data, f.pos)
    ELSE f

\* An i64 is its eight two's-complement bytes.
SignExtend(b, n) == <<b>> \o [i \in 1..(n - 1) |-> IF b >= 128 THEN 255 ELSE 0]

\* i8::try_from(v) on an i64: the byte, when the value is its sign extension
TryI8Long(w) == IF w = SignExtend(w[1], 8) THEN Ok(w[1]) ELSE Err("out of range")

\* BinWrite for WzLong
WzLong_write(w) ==
    LET t == TryI8Long(w) IN
    IF t.ok /\ t.v # I8Byte(-128) THEN <<t.v>>
    ELSE <<I8Byte(-128)>> \o w

\* BinRead for WzLong
WzLong_read(data, pos) ==
    LET f == read_i8(data, pos) IN
    IF ~f.ok THEN f
    ELSE IF f.v = -128 THEN read_exact(data, f.pos, 8)
    ELSE Got(SignExtend(I8Byte(f.v), 8), f.pos)

-----------------------------------------------------------------------------
(* The driver of the compressed integers: write a value, read it back *)

IntSpan == 130

I32_MIN == -2147483647 - 1

I32_MAX == 2147483647

IntValues ==
    (-IntSpan..IntSpan) \cup {I32_MIN, I32_MIN + 1, -32769, -32768, -256, 255, 256,
                              32767, 32768, I32_MAX - 1, I32_MAX}

\* an i64 given by its halves: hi * 2^32 + (lo as u32)
LongHalves ==
    {-129, -128, -127, -1, 0, 1, 127, 128, I32_MIN, I32_MAX}
        \X {-2, -1, 0, 1, I32_MIN, I32_MAX}

LongBytes(h) == I32Bytes(h[1]) \o I32Bytes(h[2])

InitInt ==
    /\ stage = "start"
    /\ input \in [ty : {"int"}, v : IntValues] \cup [ty : {"long"}, v : LongHalves]
    /\ output = None
    /\ crypto = None
    /\ ArchiveIdle

WriteInt ==
    /\ stage = "start"
    /\ output' = [bytes |-> IF input.ty = "int" THEN WzInt_write(input.v)
                            ELSE WzLong_write(LongBytes(input.v))]
    /\ stage' = "written"
    /\ UNCHANGED <<input, crypto>>
    /\ ArchiveUnchanged

ReadInt ==
    /\ stage = "written"
    /\ output' = [bytes |-> output.bytes,
                  val   |-> IF input.ty = "int" THEN WzInt_read(output.bytes, 0)
                            ELSE WzLong_read(output.bytes, 0)]
    /\ stage' = "read"
    /\ UNCHANGED <<input, crypto>>
    /\ ArchiveUnchanged

NextInt == WriteInt \/ ReadInt

SpecInt == InitInt /\ [][NextInt]_vars

\* whether the i64 with these halves lies in -127..=127
LongIsSmall(h) ==
    \/ h[2] = 0 /\ 0 <= h[1] /\ h[1] <= 127
    \/ h[2] = -1 /\ -127 <= h[1] /\ h[1] <= -1

\* C3: a WzInt / WzLong in -127..=127 is written as one byte, the value
\* itself; -128 and every value of larger magnitude as the flag 0x80 followed
\* by the little-endian i32 (5 bytes) or i64 (9 bytes); reading the written
\* bytes returns the value and consumes exactly those bytes.
C3_WzIntCodec ==
    /\ (stage \in {"written", "read"} /\ input.ty = "int") =>
          /\ (-127 <= input.v /\ input.v <= 127) =>
                output.bytes = <<(input.v + 256) % 256>>
          /\ ~(-127 <= input.v /\ input.v <= 127) =>
                /\ Len(output.bytes) = 5
                /\ output.bytes[1] = 128
                /\ BytesI32(SubSeq(output.bytes, 2, 5)) = input.v
          /\ (input.v = 0 => output.bytes = <<0>>)
          /\ (input.v = 127 => output.bytes = <<127>>)
          /\ (input.v = -127 => output.bytes = <<129>>)
          /\ (input.v = -128 => output.bytes = <<128, 128, 255, 255, 255>>)
          /\ (input.v = 128 => output.bytes = <<128, 128, 0, 0, 0>>)
    /\ (stage \in {"written", "read"} /\ input.ty = "long") =>
          /\ LongIsSmall(input.v) => output.bytes = <<(input.v[1] + 256) % 256>>
          /\ ~LongIsSmall(input.v) =>
                /\ Len(output.bytes) = 9
                /\ output.bytes = <<128>> \o LongBytes(input.v)
    /\ stage = "read" =>
          /\ output.val.ok
          /\ output.val.pos = Len(output.bytes)
          /\ output.val.v = IF input.ty = "int" THEN input.v ELSE LongBytes(input.v)

C3_Witness ==
    /\ stage = "read"
    /\ input.ty = "int"
    /\ input.v = -128
    /\ output.bytes = <<128, 128, 255, 255, 255>>
    /\ output.val = Got(-128, 5)

-----------------------------------------------------------------------------
(* ty.rs: WzStr.  A string is its sequence of Unicode scalar values. *)

\* xor_mask_ascii: a u8 mask that starts at 0xAA and grows by one per byte
xor_mask_ascii(data) == [i \in 1..Len(data) |-> Xor8(data[i], (170 + i - 1) % 256)]

\* xor_mask_unicode on the little-endian byte view of the u16 units: a u16
\* mask that starts at 0xAAAA and grows by one per unit
xor_mask_unicode(bytes) ==
    [i \in 1..Len(bytes) |->
        LET mask == (43690 + ((i - 1) \div 2)) % 65536 IN
        Xor8(bytes[i], IF i % 2 = 1 THEN mask % 256 ELSE mask \div 256)]

\* encoding_rs::mem::is_str_latin1
is_str_latin1(str) == \A i \in 1..Len(str) : str[i] <= 255

\* encoding_rs::mem::encode_latin1_lossy / decode_latin1 on U+0000..U+00FF
encode_latin1_lossy(str) == [i \in 1..Len(str) |-> str[i] % 256]

decode_latin1(data) == data

\* str::encode_utf16: one unit below U+10000, a surrogate pair above
utf16_units(cp) ==
    IF cp < 65536 THEN <<cp>>
    ELSE <<55296 + ((cp - 65536) \div 1024), 56320 + ((cp - 65536) % 1024)>>

RECURSIVE FlatMap(_, _, _, _)
FlatMap(Op(_), str, lo, hi) ==
    IF lo > hi THEN <<>>
    ELSE IF lo = hi THEN Op(str[lo])
    ELSE LET mid == (lo + hi) \div 2 IN
         FlatMap(Op, str, lo, mid) \o FlatMap(Op, str, mid + 1, hi)

encode_utf16(str) == FlatMap(utf16_units, str, 1, Len(str))

\* the byte view of a Vec<u16> on a little-endian target, and back
UnitBytes(u) == <<u % 256, u \div 256>>

units_to_bytes(units) == FlatMap(UnitBytes, units, 1, Len(units))

bytes_to_units(bytes) ==
    [i \in 1..(Len(bytes) \div 2) |-> bytes[2 * i - 1] + 256 * bytes[2 * i]]

IsHighSurrogate(u) == 55296 <= u /\ u <= 56319

IsLowSurrogate(u) == 56320 <= u /\ u <= 57343

\* String::from_utf16: an unpaired surrogate is an error
utf16_valid(units) ==
    \A i \in 1..Len(units) :
        /\ IsHighSurrogate(units[i]) => (i < Len(units) /\ IsLowSurrogate(units[i + 1]))
        /\ IsLowSurrogate(units[i]) => (i > 1 /\ IsHighSurrogate(units[i - 1]))

from_utf16(units) ==
    IF ~utf16_valid(units) THEN Err("utf16")
    ELSE Ok(SelectSeq(
            [i \in 1..Len(units) |->
                IF IsHighSurrogate(units[i])
                THEN 65536 + (units[i] - 55296) * 1024 + (units[i + 1] - 56320)
                ELSE IF IsLowSurrogate(units[i]) THEN -1
                ELSE units[i]],
            LAMBDA c : c >= 0))

\* BinWrite for WzStr: the bytes written
WzStr_write(c, str) ==
    IF is_str_latin1(str)
    THEN LET data == encode_latin1_lossy(str)
             n    == Len(data)
             head == IF n >= 128 THEN <<I8Byte(-128)>> \o I32Bytes(-n)
                     ELSE <<I8Byte(-n)>>
         IN  head \o xor_mask_ascii(transform(c, data))
    ELSE LET data == encode_utf16(str)
             n    == Len(data)
             head == IF n >= 127 THEN <<127>> \o I32Bytes(n) ELSE <<I8Byte(n)>>
         IN  head \o xor_mask_unicode(transform(c, units_to_bytes(data)))

\* `i32 as usize` then vec![0; ln]: a negative length becomes a length above
\* isize::MAX, and the allocation panics
alloc(ln) == IF ln < 0 THEN Err("capacity overflow") ELSE Ok(ln)

\* BinRead for WzStr
WzStr_read(c, data, pos) ==
    LET flag == read_i8(data, pos) IN
    IF ~flag.ok THEN flag
    ELSE IF flag.v <= 0
    THEN LET ln == IF flag.v = -128 THEN read_i32(data, flag.pos)
                   ELSE Got(-flag.v, flag.pos)
         IN  IF ~ln.ok THEN ln
             ELSE IF ~alloc(ln.v).ok THEN alloc(ln.v)
             ELSE LET body == read_exact(data, ln.pos, ln.v) IN
                  IF ~body.ok THEN body
                  ELSE Got(decode_latin1(transform(c, xor_mask_ascii(body.v))), body.pos)
    ELSE LET ln == IF flag.v = 127 THEN read_i32(data, flag.pos)
                   ELSE Got(flag.v, flag.pos)
         IN  IF ~ln.ok THEN ln
             ELSE IF ~alloc(ln.v).ok THEN alloc(ln.v)
             ELSE LET body == read_exact(data, ln.pos, 2 * ln.v) IN
                  IF ~body.ok THEN body
                  ELSE LET str == from_utf16(bytes_to_units(
                                      transform(c, xor_mask_unicode(body.v))))
                       IN  IF str.ok THEN Got(str.v, body.pos) ELSE str

-----------------------------------------------------------------------------
(* The driver of WzStr: write a string, read the bytes back *)

StrNear == 2

StrSeeds == 2

StrLong == 4097

StrLens == {0, 1} \cup ((127 - StrNear)..(128 + StrNear)) \cup {StrLong}

Latin1Alphabet == <<65, 0, 233, 255, 32, 127, 128>>

BmpAlphabet == <<12354, 65, 65533, 233, 8364, 55295, 57344>>

AstralAlphabet == <<128512, 65, 65536, 12354, 1114111>>

Cycle(alphabet, seed, n) ==
    [i \in 1..n |-> alphabet[((i - 1 + seed) % Len(alphabet)) + 1]]

\* the string of a kind, of n chars
StrOf(in) ==
    CASE in.kind = "latin1" -> Cycle(Latin1Alphabet, in.seed, in.len)
      [] in.kind = "bmp"    -> Cycle(BmpAlphabet, in.seed, in.len)
      [] OTHER              -> Cycle(AstralAlphabet, in.seed, in.len)

InitStr ==
    /\ stage = "start"
    /\ input \in [kind : {"latin1", "bmp", "astral"}, len : StrLens,
                  seed : 0..(StrSeeds - 1), region : {"GMS"}]
    /\ (input.kind = "astral" => input.len <= 128 + StrNear)
    /\ output = None
    /\ crypto = None
    /\ ArchiveIdle

BuildStrCrypto ==
    /\ stage = "start"
    /\ crypto' = from_cfg([region |-> input.region, version |-> 95], U32(0))
    /\ stage' = "built"
    /\ UNCHANGED <<input, output>>
    /\ ArchiveUnchanged

WriteStr ==
    /\ stage = "built"
    /\ output' = [bytes |-> WzStr_write(crypto, StrOf(input))]
    /\ stage' = "written"
    /\ UNCHANGED <<input, crypto>>
    /\ ArchiveUnchanged

ReadStr ==
    /\ stage = "written"
    /\ output' = [bytes |-> output.bytes, str |-> WzStr_read(crypto, output.bytes, 0)]
    /\ stage' = "read"
    /\ UNCHANGED <<input, crypto>>
    /\ ArchiveUnchanged

NextStr == BuildStrCrypto \/ WriteStr \/ ReadStr

SpecStr == InitStr /\ [][NextStr]_vars

\* C4: a string written with WzStr::write_options and read back with
\* WzStr::read_options under the same crypto is returned unchanged, for
\* Latin-1 and for mixed BMP strings on both sides of the short-flag /
\* full-i32-length boundary (lengths 0, 1, 127, 128 and beyond).
C4_WzStrRoundTrip ==
    (stage = "read" /\ input.kind \in {"latin1", "bmp"}) =>
        /\ output.str.ok
        /\ output.str.v = StrOf(input)

-----------------------------------------------------------------------------
(* val.rs: WzValue and its JSON form.                                      *)
(*                                                                         *)
(* A WzValue is a record tagged with the variant.  An IndexMap is the      *)
(* sequence of its keys in insertion order and the sequence of its values. *)
(* A float is named by its shortest decimal text, which is what serde_json *)
(* prints and what identifies the float it parses; "inf" and "NaN" name    *)
(* the non-finite ones.  The payload field is v for an integer, f for a   *)
(* float, s for a string.  A JSON document is the tree of its tokens: null,  *)
(* an integer literal, a literal with a fraction, a string, an object.     *)
(* Strings and keys are free of characters that JSON escapes.              *)

WzValue_Object(keys, vals) == [ty |-> "Object", keys |-> keys, vals |-> vals]

WzValue_Null == [ty |-> "Null"]

WzValue_F32(f) == [ty |-> "F32", f |-> f]

WzValue_F64(f) == [ty |-> "F64", f |-> f]

WzValue_Short(v) == [ty |-> "Short", v |-> v]

WzValue_Int(v) == [ty |-> "Int", v |-> v]

WzValue_Long(v) == [ty |-> "Long", v |-> v]

WzValue_String(s) == [ty |-> "String", s |-> s]

WzValue_Vec(x, y) == [ty |-> "Vec", x |-> x, y |-> y]

WzValue_Link(s) == [ty |-> "Link", s |-> s]

is_finite(f) == f \notin {"inf", "-inf", "NaN"}

\* IndexMap::get: the value of a key, or None
map_get(keys, vals, k) ==
    IF \E i \in 1..Len(keys) : keys[i] = k
    THEN vals[CHOOSE i \in 1..Len(keys) : keys[i] = k]
    ELSE None

\* IndexMap::insert: a present key keeps its place and takes the new value
map_insert(mp, k, v) ==
    IF \E i \in 1..Len(mp.keys) : mp.keys[i] = k
    THEN [mp EXCEPT !.vals = [i \in 1..Len(mp.vals) |->
                                  IF mp.keys[i] = k THEN v ELSE mp.vals[i]]]
    ELSE [mp EXCEPT !.keys = Append(mp.keys, k), !.vals = Append(mp.vals, v)]

\* #[derive(PartialEq)] on WzValue: same variant and equal payload; two
\* IndexMaps are equal when they hold the same keys with equal values, in
\* any order; a NaN equals nothing
RECURSIVE wz_eq(_, _)
wz_eq(a, b) ==
    /\ a.ty = b.ty
    /\ CASE a.ty = "Object" ->
                /\ Len(a.keys) = Len(b.keys)
                /\ \A i \in 1..Len(a.keys) :
                       LET other == map_get(b.keys, b.vals, a.keys[i]) IN
                       other # None /\ wz_eq(a.vals[i], other)
         [] a.ty \in {"F32", "F64"} -> a.f # "NaN" /\ a.f = b.f
         [] OTHER -> a = b

JsonNull == [j |-> "null"]

JsonInt(v) == [j |-> "int", v |-> v]

JsonFloat(f) == [j |-> "float", f |-> f]

JsonStr(s) == [j |-> "str", s |-> s]

JsonObj(keys, vals) == [j |-> "obj", keys |-> keys, vals |-> vals]

\* serde_json's serialize_f32 / serialize_f64: null for a non-finite float
serialize_float(f) == IF is_finite(f) THEN JsonFloat(f) ELSE JsonNull

\* impl Serialize for WzValue, into serde_json
RECURSIVE serialize(_)
serialize(val) ==
    CASE val.ty = "Object" ->
             JsonObj(val.keys,
                     <<>> \o [i \in 1..Len(val.vals) |-> serialize(val.vals[i])])
      [] val.ty = "Null"   -> JsonNull
      [] val.ty = "F32"    -> serialize_float(val.f)
      [] val.ty = "F64"    -> serialize_float(val.f)
      [] val.ty = "Short"  -> JsonInt(val.v)
      [] val.ty = "Int"    -> JsonInt(val.v)
      [] val.ty = "Long"   -> JsonInt(val.v)
      [] val.ty = "String" -> JsonStr(val.s)
      [] val.ty = "Vec"    ->
             JsonObj(<<"$type", "x", "y">>,
                     <<JsonStr("vec2"), JsonInt(val.x), JsonInt(val.y)>>)
      [] val.ty = "Sound"  -> JsonStr("SOUND")
      [] val.ty = "Link"   ->
             JsonObj(<<"$type", "$link">>, <<JsonStr("link"), JsonStr(val.s)>>)

\* next_value::<String>()
deserialize_string(js) ==
    IF js.j = "str" THEN Ok(js.s) ELSE Err("invalid type, expected a string")

\* next_value::<i32>()
deserialize_i32(js) ==
    IF js.j = "int" THEN Ok(js.v) ELSE Err("invalid type, expected i32")

\* serde_json's end_map after visit_map returned: entries left unread are an
\* error
end_map(keys, used, val) ==
    IF Len(keys) > used THEN Err("trailing characters") ELSE Ok(val)

visit_vec2(keys, vals) ==
    IF Len(keys) < 2 THEN Err("invalid length 0")
    ELSE IF keys[2] # "x" THEN Err("invalid value, expected x")
    ELSE LET x == deserialize_i32(vals[2]) IN
         IF ~x.ok THEN x
         ELSE IF Len(keys) < 3 THEN Err("invalid length 0")
         ELSE IF keys[3] # "y" THEN Err("invalid value, expected y")
         ELSE LET y == deserialize_i32(vals[3]) IN
              IF ~y.ok THEN y ELSE Ok(WzValue_Vec(x.v, y.v))

RECURSIVE deserialize(_)
RECURSIVE next_entries(_, _, _, _)

\* m.insert(ty, next_value()?) and the while-let loop over next_entry
next_entries(keys, vals, i, mp) ==
    IF i > Len(keys) THEN Ok(mp)
    ELSE LET v == deserialize(vals[i]) IN
         IF ~v.ok THEN v
         ELSE next_entries(keys, vals, i + 1, map_insert(mp, keys[i], v.v))

\* WzValueVisitor::visit_map
visit_map(keys, vals) ==
    IF keys = <<>> THEN Err("invalid length 0")
    ELSE IF keys[1] = "$type"
    THEN LET ty_val == deserialize_string(vals[1]) IN
         IF ~ty_val.ok THEN ty_val
         ELSE IF ty_val.v = "link"
         THEN IF Len(keys) < 2 THEN Err("expected value")
              ELSE LET link == deserialize_string(vals[2]) IN
                   IF ~link.ok THEN link
                   ELSE end_map(keys, 2, WzValue_Link(link.v))
         ELSE IF ty_val.v = "vec2"
         THEN LET v == visit_vec2(keys, vals) IN
              IF ~v.ok THEN v ELSE end_map(keys, 3, v.v)
         ELSE IF ty_val.v = "vex2" THEN Err("not yet implemented")
         ELSE Err("invalid value, expected custom type")
    ELSE LET mp == next_entries(keys, vals, 1, [keys |-> <<>>, vals |-> <<>>]) IN
         IF ~mp.ok THEN mp ELSE Ok(WzValue_Object(mp.v.keys, mp.v.vals))

\* impl Deserialize for WzValue: serde_json's deserialize_any hands null to
\* visit_unit (which WzValueVisitor leaves at serde's default, an error), a
\* literal without sign to visit_u64, a negative one to visit_i64, one with
\* a fraction to visit_f64, a string to visit_str, an object to visit_map
deserialize(js) ==
    CASE js.j = "null"  -> Err("invalid type: null, expected a WzValue")
      [] js.j = "int"   -> Ok(WzValue_Long(js.v))
      [] js.j = "float" -> Ok(WzValue_F64(js.f))
      [] js.j = "str"   -> Ok(WzValue_String(js.s))
      [] js.j = "obj"   -> visit_map(js.keys, js.vals)

-----------------------------------------------------------------------------
(* The driver of the JSON form: tests::check_val, serde_json::to_string    *)
(* then serde_json::from_str                                               *)

JsonKeys == <<"a", "mylink">>

JsonScalars ==
    {WzValue_Null,
     WzValue_Short(-7), WzValue_Short(300),
     WzValue_Int(0), WzValue_Int(-70000),
     WzValue_Long(0), WzValue_Long(-5), WzValue_Long(I32_MAX),
     WzValue_F32("1.5"), WzValue_F64("1.5"), WzValue_F64("-0.1"),
     WzValue_String(""), WzValue_String("SOUND")}

JsonLeaves ==
    JsonScalars \cup {WzValue_Vec(-1, 1), WzValue_Link("Link"),
                      WzValue_Object(<<>>, <<>>)}

\* objects of one entry, of two entries, and nested one level down
JsonObjects ==
    {WzValue_Object(<<>>, <<>>)}
    \cup {WzValue_Object(<<JsonKeys[2]>>, <<v>>) : v \in JsonLeaves}
    \cup {WzValue_Object(JsonKeys, <<v, w>>) : v \in JsonLeaves, w \in JsonLeaves}
    \cup {WzValue_Object(<<JsonKeys[1]>>, <<WzValue_Object(<<JsonKeys[2]>>, <<v>>)>>) :
              v \in JsonLeaves}

InitJson ==
    /\ stage = "start"
    /\ input \in JsonObjects \cup JsonLeaves
    /\ output = None
    /\ crypto = None
    /\ ArchiveIdle

ToJson ==
    /\ stage = "start"
    /\ output' = [json |-> serialize(input)]
    /\ stage' = "json"
    /\ UNCHANGED <<input, crypto>>
    /\ ArchiveUnchanged

FromJson ==
    /\ stage = "json"
    /\ output' = [json |-> output.json, val |-> deserialize(output.json)]
    /\ stage' = "value"
    /\ UNCHANGED <<input, crypto>>
    /\ ArchiveUnchanged

NextJson == ToJson \/ FromJson

SpecJson == InitJson /\ [][NextJson]_vars

\* C5: a WzValue::Object holding each scalar variant (Null, Short, Int,
\* Long, F32, F64, String), a Vec, a Link, a nested object, or nothing at
\* all, serialized to JSON and deserialized again, compares equal to the
\* original.
C5_JsonRoundTrip ==
    (stage = "value" /\ input.ty = "Object") =>
        /\ output.val.ok
        /\ wz_eq(output.val.v, input)

-----------------------------------------------------------------------------
(* l0/mod.rs: the archive header and the directory entries.                *)
(*                                                                         *)
(* A stream position is a number; an offset is a u32 word.  A panic is an  *)
(* error whose text is in Panics: it unwinds through every caller.         *)

Panics == {"overflow", "capacity overflow", "Expected link type Img"}

\* SeekFrom::Start of a u32 / u64 word; a position that does not fit the
\* numbers lies past the end of every input
Pos(w) == IF Fits31(w) THEN LeVal(w) ELSE I32_MAX

PKG1 == <<80, 75, 71, 49>>

\* NullString: the bytes up to the first NUL
read_null_string(data, pos) ==
    Bind({i \in (pos + 1)..Len(data) : data[i] = 0}, LAMBDA nuls :
        IF nuls = {} THEN Err("eof")
        ELSE Bind(CHOOSE i \in nuls : \A k \in nuls : i <= k, LAMBDA e :
                 Got(SubSeq(data, pos + 1, e - 1), e)))

\* BinRead for WzHeader
WzHeader_read(data, pos) ==
    Try(read_exact(data, pos, 4), LAMBDA magic :
        IF magic.v # PKG1 THEN Err("bad magic")
        ELSE Try(read_exact(data, magic.pos, 8), LAMBDA file_size :
             Try(read_u32(data, file_size.pos), LAMBDA data_offset :
             Try(read_null_string(data, data_offset.pos), LAMBDA desc :
                 Got([file_size   |-> file_size.v,
                      data_offset |-> data_offset.v,
                      desc        |-> desc.v], desc.pos)))))

\* BinWrite for WzHeader, with the magic given
WzHeader_write(magic, hdr) ==
    magic \o hdr.file_size \o hdr.data_offset \o hdr.desc \o <<0>>

\* the position taken after the field is read
WzOffset_read_pos_after(c, data, pos, checked) ==
    Try(read_u32(data, pos), LAMBDA v :
    Try(decrypt_offset(c, v.v, U32(v.pos), checked), LAMBDA offset :
        Got(offset.v, v.pos)))

\* BinRead for WzOffset: the field is decrypted with the position of the
\* field itself
WzOffset_read(c, data, pos, checked) ==
    Try(read_u32(data, pos), LAMBDA v :
    Try(decrypt_offset(c, v.v, U32(pos), checked), LAMBDA offset :
        Got(offset.v, v.pos)))

\* BinWrite for WzOffset at stream position pos: the bytes written
WzOffset_write(c, off, pos, checked) == encrypt_offset(c, off, U32(pos), checked)

\* BinRead for WzImgHeader and for WzDirHeader: name, blob_size, checksum,
\* offset
WzImgHeader_read(c, data, pos, checked) ==
    Try(WzStr_read(c, data, pos), LAMBDA name :
    Try(WzInt_read(data, name.pos), LAMBDA blob_size :
    Try(WzInt_read(data, blob_size.pos), LAMBDA checksum :
    Try(WzOffset_read(c, data, checksum.pos, checked), LAMBDA offset :
        Got([name      |-> name.v,
             blob_size |-> blob_size.v,
             checksum  |-> checksum.v,
             offset    |-> offset.v], offset.pos)))))

WzDirHeader_read(c, data, pos, checked) == WzImgHeader_read(c, data, pos, checked)

\* WzDirHeader::root
WzDirHeader_root(name, root_size, offset) ==
    [name |-> name, blob_size |-> root_size, checksum |-> 1, offset |-> offset]

\* WzLinkData's reader without the seek back to old_pos
WzLinkData_read_no_restore(c, data, pos, checked) ==
    Try(read_u32(data, pos), LAMBDA offset :
    Try(read_exact(data, Pos(offset_link(c, offset.v)), 1), LAMBDA ty :
        IF ty.v[1] # 4 THEN Err("Expected link type Img")
        ELSE Try(WzImgHeader_read(c, data, ty.pos, checked), LAMBDA link_img :
                 Got([offset |-> offset.v, link_img |-> link_img.v], link_img.pos))))

\* BinRead for WzLinkData: the plain u32, a seek to offset_link of it, the
\* tag, the image header there, and the seek back to old_pos
WzLinkData_read(c, data, pos, checked) ==
    Try(read_u32(data, pos), LAMBDA offset :
    Bind(offset.pos, LAMBDA old_pos :
    Try(read_exact(data, Pos(offset_link(c, offset.v)), 1), LAMBDA ty :
        IF ty.v[1] # 4 THEN Err("Expected link type Img")
        ELSE Try(WzImgHeader_read(c, data, ty.pos, checked), LAMBDA link_img :
                 Got([offset |-> offset.v, link_img |-> link_img.v], old_pos)))))

\* BinRead for WzLinkHeader: link, blob_size, checksum, offset
WzLinkHeader_read(c, data, pos, checked) ==
    Try(WzLinkData_read(c, data, pos, checked), LAMBDA link :
    Try(WzInt_read(data, link.pos), LAMBDA blob_size :
    Try(WzInt_read(data, blob_size.pos), LAMBDA checksum :
    Try(WzOffset_read(c, data, checksum.pos, checked), LAMBDA offset :
        Got([link      |-> link.v,
             blob_size |-> blob_size.v,
             checksum  |-> checksum.v,
             offset    |-> offset.v], offset.pos)))))

\* BinRead for WzDirNode: the variant of the tag byte.  A variant that
\* fails makes binrw try the later ones, whose magic then does not match:
\* the read fails, unless the variant panicked.
WzDirNode_read(c, data, pos, checked) ==
    Try(read_exact(data, pos, 1), LAMBDA tag :
        CASE tag.v[1] = 1 ->
                 Try(read_exact(data, tag.pos, 10), LAMBDA raw :
                     Got([tag |-> "Nil", raw |-> raw.v], raw.pos))
          [] tag.v[1] = 2 ->
                 Try(WzLinkHeader_read(c, data, tag.pos, checked), LAMBDA h :
                     Got([tag |-> "Link", hdr |-> h.v], h.pos))
          [] tag.v[1] = 3 ->
                 Try(WzDirHeader_read(c, data, tag.pos, checked), LAMBDA h :
                     Got([tag |-> "Dir", hdr |-> h.v], h.pos))
          [] tag.v[1] = 4 ->
                 Try(WzImgHeader_read(c, data, tag.pos, checked), LAMBDA h :
                     Got([tag |-> "Img", hdr |-> h.v], h.pos))
          [] OTHER -> Err("no variant match"))

\* Vec::read_options with a count: the elements one after the other
RECURSIVE read_nodes(_, _, _, _, _)
read_nodes(c, data, pos, n, checked) ==
    IF n = 0 THEN Got(<<>>, pos)
    ELSE Try(WzDirNode_read(c, data, pos, checked), LAMBDA e :
         Try(read_nodes(c, data, e.pos, n - 1, checked), LAMBDA rest :
             Got(<<e.v>> \o rest.v, rest.pos)))

\* BinRead for WzDir: WzVec<WzDirNode>, a WzInt count and that many
\* entries; a negative count, cast to usize, asks for more entries than any
\* input holds
WzDir_read(c, data, pos, checked) ==
    Try(WzInt_read(data, pos), LAMBDA n :
        IF n.v < 0 THEN Err("eof")
        ELSE read_nodes(c, data, n.pos, n.v, checked))

-----------------------------------------------------------------------------
(* file.rs: WzReader and WzImgTraverser.                                   *)
(*                                                                         *)
(* The reader is its data_offset and the stream position of its input; its *)
(* crypto is the variable crypto.  A name or a path is the sequence of its *)
(* chars.                                                                  *)

\* WzReader::new
WzReader_new(data_offset, pos) == [data_offset |-> data_offset, pos |-> pos]

\* WzReader::open: the header, a seek to data_offset, the u16 there against
\* the configured version's encrypted form
WzReader_open(data, cfg) ==
    Try(WzHeader_read(data, 0), LAMBDA hdr :
    Try(read_exact(data, Pos(hdr.v.data_offset), 2), LAMBDA encrypted :
        IF encrypted_version(cfg.version) # LeVal(encrypted.v)
        THEN Err("Wrong version")
        ELSE Ok([reader |-> WzReader_new(hdr.v.data_offset, encrypted.pos),
                 crypto |-> from_cfg(cfg, hdr.v.data_offset)])))

\* the version field not skipped
root_offset_at_version(r, checked) ==
    IF checked /\ AddOverflows(r.data_offset, U32(0)) THEN Err("overflow")
    ELSE Ok(AddW(r.data_offset, U32(0)))

\* WzReader::root_offset: self.data_offset as u32 + 2
root_offset(r, checked) ==
    IF checked /\ AddOverflows(r.data_offset, U32(2)) THEN Err("overflow")
    ELSE Ok(AddW(r.data_offset, U32(2)))

\* WzReader::read_dir: set_pos, then the WzDir there
read_dir(c, data, offset, checked) ==
    Bind(Pos(offset), LAMBDA p : WzDir_read(c, data, p, checked))

\* WzReader::read_root_dir
read_root_dir(c, data, r, checked) ==
    Try(root_offset(r, checked), LAMBDA offset :
        read_dir(c, data, offset.v, checked))

\* WzReader::read_dir_node
read_dir_node(c, data, hdr, checked) == read_dir(c, data, hdr.offset, checked)

ROOT == <<114, 111, 111, 116>>

\* format!("{}/{}", a, b), with the separator left out
format_no_separator(a, b) == a \o b

\* format!("{}/{}", a, b)
format_path(a, b) == a \o <<47>> \o b

\* the root directory queued under the root's own name
traverse_images_under_root(r, checked) ==
    Try(root_offset(r, checked), LAMBDA offset :
        Ok(<<[root_name |-> ROOT,
              node      |-> [tag |-> "Dir",
                             hdr |-> WzDirHeader_root(ROOT, 1, offset.v)]]>>))

\* WzReader::traverse_images: the queue holds the root directory under the
\* empty name
traverse_images(r, checked) ==
    Try(root_offset(r, checked), LAMBDA offset :
        Ok(<<[root_name |-> <<>>,
              node      |-> [tag |-> "Dir",
                             hdr |-> WzDirHeader_root(ROOT, 1, offset.v)]]>>))

\* the entries of a directory queued before everything already waiting
handle_dir_push_front(c, data, queue, root_name, dir, checked) ==
    Try(read_dir_node(c, data, dir, checked), LAMBDA node :
    Bind(format_path(root_name, dir.name), LAMBDA node_name :
        [ok  |-> TRUE,
         q   |-> [i \in 1..Len(node.v) |->
                      [root_name |-> node_name, node |-> node.v[i]]] \o queue,
         pos |-> node.pos]))

\* WzImgTraverser::handle_dir: the directory is read and its entries join
\* the end of the queue, each under the directory's path
handle_dir(c, data, queue, root_name, dir, checked) ==
    Try(read_dir_node(c, data, dir, checked), LAMBDA node :
    Bind(format_path(root_name, dir.name), LAMBDA node_name :
        [ok  |-> TRUE,
         q   |-> queue \o [i \in 1..Len(node.v) |->
                              [root_name |-> node_name, node |-> node.v[i]]],
         pos |-> node.pos]))

\* the item of a Link entry: the linked image's header under the holding
\* directory's path
link_item(root_name, link) ==
    Bind(link.link.link_img, LAMBDA img :
        Ok([path |-> format_path(root_name, img.name), hdr |-> img]))

\* the item of an Img entry
img_item(root_name, img) ==
    Ok([path |-> format_path(root_name, img.name), hdr |-> img])

\* Iterator::next of WzImgTraverser: pop the front until an entry gives an
\* item; None once the queue is empty
RECURSIVE next(_, _, _, _, _)
next(c, data, pos, queue, checked) ==
    IF queue = <<>> THEN [item |-> None, q |-> queue, pos |-> pos]
    ELSE Bind(Head(queue), LAMBDA front :
         Bind(Tail(queue), LAMBDA rest :
             CASE front.node.tag = "Dir" ->
                      Bind(handle_dir(c, data, rest, front.root_name,
                                      front.node.hdr, checked), LAMBDA h :
                          IF ~h.ok
                          THEN [item |-> h, q |-> rest,
                                pos |-> Pos(front.node.hdr.offset)]
                          ELSE next(c, data, h.pos, h.q, checked))
               [] front.node.tag = "Img" ->
                      [item |-> img_item(front.root_name, front.node.hdr),
                       q |-> rest, pos |-> pos]
               [] front.node.tag = "Link" ->
                      [item |-> link_item(front.root_name, front.node.hdr),
                       q |-> rest, pos |-> pos]
               [] OTHER -> next(c, data, pos, rest, checked)))

-----------------------------------------------------------------------------
(* The archives the reader is run on.                                      *)
(*                                                                         *)
(* An archive is described by its directories: dirs[1] is the root, an     *)
(* entry is [kind, name, size, child], child the index of a Dir entry's    *)
(* directory.  The kinds of a directory's entries run through KindCycle    *)
(* from a seed, each level starting one kind earlier than the level above; *)
(* every Dir of the root holds the second level's entries, every Dir of    *)
(* the second level the third level's, which has images in the place of    *)
(* directories.  All Links of an archive point at one image.               *)
(* The file is the header, the encrypted version, the directories one      *)
(* after the other, then the image blobs: what the BinWrite impls of the   *)
(* header, WzInt, WzStr and WzOffset write, and for a Link (which has no   *)
(* writer) the bytes WzLinkHeader reads.                                   *)

MaxRoot == 3

MaxSub == 2

MaxLeaf == 1

KindCycle == <<"Img", "Dir", "Nil", "Link", "Dir">>

DOT_IMG == <<46, 105, 109, 103>>

\* "X.img" for the first entry, "b.img", "c.img", ... for the next ones
ImgName(i) == (IF i = 1 THEN <<88>> ELSE <<96 + i>>) \o DOT_IMG

\* "A", "B", ...
DirName(i) == <<64 + i>>

KindsOf(seed, n) ==
    <<>> \o [i \in 1..n |-> KindCycle[((i - 1 + seed) % Len(KindCycle)) + 1]]

Ordinal(kinds, i) == Cardinality({j \in 1..i : kinds[j] = "Dir"})

NumDirs(kinds) == Ordinal(kinds, Len(kinds))

Entry(kind, i, child) ==
    [kind  |-> kind,
     name  |-> IF kind = "Img" THEN ImgName(i)
               ELSE IF kind = "Dir" THEN DirName(i) ELSE <<>>,
     size  |-> IF kind = "Img" THEN i ELSE 0,
     child |-> IF kind = "Dir" THEN child ELSE 0]

ArchDirs(in) ==
    Bind(KindsOf(in.seed, in.root_len), LAMBDA rk :
    Bind(KindsOf(in.seed + Len(KindCycle) - 1, in.sub_len), LAMBDA sk :
    Bind(KindsOf(in.seed + 2 * (Len(KindCycle) - 1), in.leaf_len), LAMBDA lk :
    Bind(NumDirs(rk), LAMBDA nR :
    Bind(NumDirs(sk), LAMBDA nS :
        <<<<>> \o [i \in 1..Len(rk) |-> Entry(rk[i], i, 1 + Ordinal(rk, i))]>>
        \o [a \in 1..nR |->
               <<>> \o [i \in 1..Len(sk) |->
                   Entry(sk[i], i, 1 + nR + ((a - 1) * nS) + Ordinal(sk, i))]]
        \o [b \in 1..(nR * nS) |->
               <<>> \o [i \in 1..Len(lk) |->
                   Entry(IF lk[i] = "Dir" THEN "Img" ELSE lk[i], i, 0)]])))))

RECURSIVE SumFrom(_, _)
SumFrom(s, i) == IF i > Len(s) THEN 0 ELSE s[i] + SumFrom(s, i + 1)

\* the sum of a sequence of numbers
SumSeq(s) == Bind(s, LAMBDA t : SumFrom(t, 1))

RECURSIVE ConcatFrom(_, _)
ConcatFrom(ss, i) == IF i > Len(ss) THEN <<>> ELSE ss[i] \o ConcatFrom(ss, i + 1)

\* the sequences of a sequence one after the other
Concat(ss) == Bind(<<>> \o ss, LAMBDA t : ConcatFrom(t, 1))

\* the <<directory, entry>> places of the entries of some kinds, in file order
Places(dirs, kinds) ==
    Concat([k \in 1..Len(dirs) |->
               SelectSeq([i \in 1..Len(dirs[k]) |-> <<k, i>>],
                         LAMBDA p : dirs[k][p[2]].kind \in kinds)])

\* the image every Link points at
LinkTarget(in, dirs) ==
    Bind(Places(dirs, {"Img"}), LAMBDA imgs :
        IF in.link = "first" THEN imgs[1] ELSE imgs[Len(imgs)])

\* the bytes of an entry before its offset field; a Nil entry has none
EntryHead(c, e, target, link_offset) ==
    CASE e.kind = "Nil"  -> <<1, 0, 0, 0, 0, 0, 0, 0, 0, 0, 0>>
      [] e.kind = "Link" -> <<2>> \o link_offset \o WzInt_write(target.size)
                                 \o WzInt_write(target.size)
      [] e.kind = "Dir"  -> <<3>> \o WzStr_write(c, e.name) \o WzInt_write(0)
                                 \o WzInt_write(0)
      [] e.kind = "Img"  -> <<4>> \o WzStr_write(c, e.name) \o WzInt_write(e.size)
                                 \o WzInt_write(e.size)

\* the length of an entry
EntryLen(c, e, target) ==
    Len(EntryHead(c, e, target, U32(0))) + (IF e.kind = "Nil" THEN 0 ELSE 4)

\* the header's length: the magic, file_size, data_offset, desc and its NUL
HeaderLen(in) == Len(PKG1) + 8 + 4 + Len(in.desc) + 1

\* where everything lies in the file, c being the crypto the archive is
\* written with
LayoutWith(in, c) ==
    Bind(ArchDirs(in), LAMBDA dirs :
    Bind(HeaderLen(in), LAMBDA data_offset :
    Bind(Places(dirs, {"Img"}), LAMBDA imgs :
    Bind(IF imgs # <<>> THEN LinkTarget(in, dirs) ELSE <<0, 0>>, LAMBDA tp :
    Bind(IF imgs # <<>> THEN dirs[tp[1]][tp[2]] ELSE Entry("Nil", 0, 0), LAMBDA target :
    Bind(<<>> \o [k \in 1..Len(dirs) |-> <<>> \o [i \in 1..Len(dirs[k]) |->
             EntryLen(c, dirs[k][i], target)]], LAMBDA elen :
    Bind(<<>> \o [k \in 1..Len(dirs) |-> Len(WzInt_write(Len(dirs[k])))], LAMBDA count :
    Bind(<<>> \o [k \in 1..Len(dirs) |-> count[k] + SumSeq(elen[k])], LAMBDA dlen :
    Bind(<<>> \o [k \in 1..Len(dirs) |->
             data_offset + 2 + SumSeq(SubSeq(dlen, 1, k - 1))], LAMBDA dir_off :
    Bind(data_offset + 2 + SumSeq(dlen), LAMBDA blobs :
        [dirs        |-> dirs,
         data_offset |-> data_offset,
         crypto      |-> c,
         target      |-> tp,
         dir_off     |-> dir_off,
         ent_pos     |-> <<>> \o [k \in 1..Len(dirs) |-> <<>> \o [i \in 1..Len(dirs[k]) |->
                            dir_off[k] + count[k] + SumSeq(SubSeq(elen[k], 1, i - 1))]],
         img_off     |-> <<>> \o [k \in 1..Len(dirs) |-> <<>> \o [i \in 1..Len(dirs[k]) |->
                            blobs + SumSeq([n \in 1..Len(imgs) |->
                                IF imgs[n][1] < k \/ (imgs[n][1] = k /\ imgs[n][2] < i)
                                THEN dirs[imgs[n][1]][imgs[n][2]].size ELSE 0])]],
         file_size   |-> blobs + SumSeq([n \in 1..Len(imgs) |->
                                            dirs[imgs[n][1]][imgs[n][2]].size])]
    ))))))))))

\* the layout of an archive written with the crypto of its region, version
\* and data offset
Layout(in) ==
    Bind(from_cfg([region |-> in.region, version |-> in.version],
                  U32(HeaderLen(in))), LAMBDA c : LayoutWith(in, c))

\* the offset an entry stores: of its blob, of its directory, of the linked
\* image's blob
EntryOffset(lay, k, i) ==
    CASE lay.dirs[k][i].kind = "Img"  -> lay.img_off[k][i]
      [] lay.dirs[k][i].kind = "Dir"  -> lay.dir_off[lay.dirs[k][i].child]
      [] lay.dirs[k][i].kind = "Link" -> lay.img_off[lay.target[1]][lay.target[2]]
      [] OTHER                        -> 0

\* the bytes of one entry at its place
EntryBytes(in, lay, k, i) ==
    Bind(lay.dirs[k][i], LAMBDA e :
    Bind(EntryHead(lay.crypto, e,
                   IF e.kind = "Link" THEN lay.dirs[lay.target[1]][lay.target[2]] ELSE e,
                   IF e.kind = "Link"
                   THEN U32(lay.ent_pos[lay.target[1]][lay.target[2]] - lay.data_offset)
                   ELSE U32(0)), LAMBDA head :
        IF e.kind = "Nil" THEN head
        ELSE head \o WzOffset_write(lay.crypto, U32(EntryOffset(lay, k, i)),
                                    lay.ent_pos[k][i] + Len(head), in.checked).v))

\* the whole file
ArchiveBytes(in) ==
    Bind(Layout(in), LAMBDA lay :
    Bind(Places(lay.dirs, {"Img"}), LAMBDA imgs :
        WzHeader_write(in.magic, [file_size   |-> U32(lay.file_size) \o <<0, 0, 0, 0>>,
                                  data_offset |-> U32(lay.data_offset),
                                  desc        |-> in.desc])
        \o Le(encrypted_version(in.version), 2)
        \o Concat([k \in 1..Len(lay.dirs) |->
                      WzInt_write(Len(lay.dirs[k]))
                      \o Concat([i \in 1..Len(lay.dirs[k]) |->
                                    EntryBytes(in, lay, k, i)])])
        \o Concat([n \in 1..Len(imgs) |->
                      [b \in 1..lay.dirs[imgs[n][1]][imgs[n][2]].size |-> 1]])))

-----------------------------------------------------------------------------
(* The driver of the archive reader: open, read the root directory, then   *)
(* traverse the images, one call of next() after the other                 *)

ArchiveDesc == <<80, 107, 103>>

\* the shapes: no level below a directory-less one, a Link only with an
\* image to point at, and the two link targets only when they differ
ArchiveShapes ==
    {in \in [seed : 0..(Len(KindCycle) - 1), root_len : 0..MaxRoot,
             sub_len : 0..MaxSub, leaf_len : 0..MaxLeaf,
             link : {"first", "last"}] :
        LET dirs == ArchDirs(in)
            imgs == Places(dirs, {"Img"})
        IN  /\ (NumDirs(KindsOf(in.seed, in.root_len)) = 0 => in.sub_len = 0)
            /\ (Len(dirs) = 1 + NumDirs(KindsOf(in.seed, in.root_len))
                    => in.leaf_len = 0)
            /\ (Places(dirs, {"Link"}) # <<>> => imgs # <<>>)
            /\ (Places(dirs, {"Link"}) = <<>> \/ Len(imgs) <= 1 => in.link = "first")}

\* the archive of one image, X.img, in the root directory
SingleImage ==
    [seed |-> 0, root_len |-> 1, sub_len |-> 0, leaf_len |-> 0, link |-> "first"]

With(shape, version, cfg_version, magic, checked) ==
    [seed |-> shape.seed, root_len |-> shape.root_len, sub_len |-> shape.sub_len,
     leaf_len |-> shape.leaf_len, link |-> shape.link,
     region |-> "GMS", desc |-> ArchiveDesc,
     version |-> version, cfg_version |-> cfg_version,
     magic |-> magic, checked |-> checked]

\* every shape as a version 95 archive opened as version 95, and the single
\* image with another magic, with another stored version, and opened as
\* another version
ArchiveInputs ==
    {With(shape, 95, 95, PKG1, checked) :
         shape \in ArchiveShapes, checked \in BOOLEAN}
    \cup {With(SingleImage, version, cfg_version, magic, checked) :
              version \in {95, 83}, cfg_version \in {95, 83},
              magic \in {PKG1, <<80, 75, 71, 50>>, <<0, 75, 71, 49>>},
              checked \in BOOLEAN}

InitArchive ==
    /\ stage = "start"
    /\ input \in ArchiveInputs
    /\ output = None
    /\ crypto = None
    /\ file = ArchiveBytes(input)
    /\ rdr = None
    /\ q = <<>>
    /\ items = <<>>

\* WzReader::open(rdr, cfg)
Open ==
    /\ stage = "start"
    /\ \E r \in {WzReader_open(file, [region |-> input.region,
                                        version |-> input.cfg_version])} :
           IF r.ok
           THEN /\ rdr' = r.v.reader
                /\ crypto' = r.v.crypto
                /\ output' = [open |-> Ok("reader"), root |-> None]
                /\ stage' = "open"
           ELSE /\ output' = [open |-> r, root |-> None]
                /\ stage' = "failed"
                /\ UNCHANGED <<rdr, crypto>>
    /\ UNCHANGED <<input, file, q, items>>

\* WzReader::read_root_dir
ReadRootDir ==
    /\ stage = "open"
    /\ output.root = None
    /\ \E d \in {read_root_dir(crypto, file, rdr, input.checked)} :
       IF d.ok
       THEN /\ output' = [output EXCEPT !.root = Ok(d.v)]
            /\ rdr' = [rdr EXCEPT !.pos = d.pos]
            /\ stage' = stage
       ELSE IF d.err \in Panics
       THEN /\ stage' = "panicked"
            /\ UNCHANGED <<output, rdr>>
       ELSE /\ output' = [output EXCEPT !.root = d]
            /\ rdr' = [rdr EXCEPT !.pos = Pos(root_offset(rdr, input.checked).v)]
            /\ stage' = stage
    /\ UNCHANGED <<input, crypto, file, q, items>>

\* WzReader::traverse_images
TraverseImages ==
    /\ stage = "open"
    /\ \E t \in {traverse_images(rdr, input.checked)} :
       IF t.ok
       THEN q' = t.v /\ stage' = "traversing"
       ELSE q' = q /\ stage' = "panicked"
    /\ UNCHANGED <<input, output, crypto, file, rdr, items>>

\* one call of WzImgTraverser::next
IterNext ==
    /\ stage = "traversing"
    /\ \E n \in {next(crypto, file, rdr.pos, q, input.checked)} :
       IF n.item = None
       THEN /\ stage' = "done"
            /\ q' = n.q
            /\ rdr' = [rdr EXCEPT !.pos = n.pos]
            /\ items' = items
       ELSE IF ~n.item.ok /\ n.item.err \in Panics
       THEN /\ stage' = "panicked"
            /\ UNCHANGED <<q, rdr, items>>
       ELSE /\ stage' = stage
            /\ q' = n.q
            /\ rdr' = [rdr EXCEPT !.pos = n.pos]
            /\ items' = Append(items, n.item)
    /\ UNCHANGED <<input, output, crypto, file>>

NextArchive == Open \/ ReadRootDir \/ TraverseImages \/ IterNext

SpecArchive == InitArchive /\ [][NextArchive]_vars

-----------------------------------------------------------------------------
(* What an archive's description says the reader finds *)

\* the header fields as they stand in the file
DataOffsetField == LeVal(SubSeq(file, 13, 16))

FileSizeField == LeVal(SubSeq(file, 5, 8))

\* the u16 stored at data_offset
StoredVersion == LeVal(SubSeq(file, DataOffsetField + 1, DataOffsetField + 2))

SLASH_ROOT == <<47, 114, 111, 111, 116>>

StartsWith(path, prefix) ==
    Len(path) >= Len(prefix) /\ SubSeq(path, 1, Len(prefix)) = prefix

\* the header of the image at a place
ExpectedImg(lay, p) ==
    LET e == lay.dirs[p[1]][p[2]] IN
    [name      |-> e.name,
     blob_size |-> e.size,
     checksum  |-> e.size,
     offset    |-> U32(lay.img_off[p[1]][p[2]])]

\* the entry at a place
ExpectedNode(lay, k, i) ==
    LET e == lay.dirs[k][i] IN
    CASE e.kind = "Nil" -> [tag |-> "Nil", raw |-> <<0, 0, 0, 0, 0, 0, 0, 0, 0, 0>>]
      [] e.kind = "Dir" ->
             [tag |-> "Dir",
              hdr |-> [name |-> e.name, blob_size |-> 0, checksum |-> 0,
                       offset |-> U32(lay.dir_off[e.child])]]
      [] e.kind = "Img" -> [tag |-> "Img", hdr |-> ExpectedImg(lay, <<k, i>>)]
      [] e.kind = "Link" ->
             LET img == ExpectedImg(lay, lay.target) IN
             [tag |-> "Link",
              hdr |-> [link      |-> [offset   |-> U32(lay.ent_pos[lay.target[1]][lay.target[2]]
                                                        - lay.data_offset),
                                      link_img |-> img],
                       blob_size |-> img.blob_size,
                       checksum  |-> img.checksum,
                       offset    |-> img.offset]]

ExpectedDir(lay, k) == [i \in 1..Len(lay.dirs[k]) |-> ExpectedNode(lay, k, i)]

\* the path of a directory: "/root" for the root, the parent's path, a '/'
\* and the name for another
RECURSIVE DirPath(_, _)
DirPath(dirs, k) ==
    IF k = 1 THEN SLASH_ROOT
    ELSE LET p == CHOOSE p \in {<<a, i>> : a \in 1..Len(dirs), i \in 1..MaxRoot + MaxSub} :
                      /\ p[2] <= Len(dirs[p[1]])
                      /\ dirs[p[1]][p[2]].child = k
         IN  DirPath(dirs, p[1]) \o <<47>> \o dirs[p[1]][p[2]].name

\* the name under which an Img or Link entry is yielded
YieldName(lay, k, i) ==
    IF lay.dirs[k][i].kind = "Link"
    THEN lay.dirs[lay.target[1]][lay.target[2]].name
    ELSE lay.dirs[k][i].name

\* the Img and Link entries of directory k, in stored order
Yielding(lay, k) ==
    SelectSeq([i \in 1..Len(lay.dirs[k]) |-> i],
              LAMBDA i : lay.dirs[k][i].kind \in {"Img", "Link"})

\* what directory k contributes to the traversal, in stored order
ExpectedYield(lay, k) ==
    LET ys == Yielding(lay, k) IN
    [n \in 1..Len(ys) |->
        Ok([path |-> DirPath(lay.dirs, k) \o <<47>> \o YieldName(lay, k, ys[n]),
            hdr  |-> IF lay.dirs[k][ys[n]].kind = "Link"
                     THEN ExpectedImg(lay, lay.target)
                     ELSE ExpectedImg(lay, <<k, ys[n]>>)])]

\* within every directory the yielded names differ
NamesDistinct(lay) ==
    \A k \in 1..Len(lay.dirs) :
        LET ys == Yielding(lay, k) IN
        \A a, b \in 1..Len(ys) :
            a # b => YieldName(lay, k, ys[a]) # YieldName(lay, k, ys[b])

\* the number of '/' in a path
Depth(path) == Cardinality({i \in 1..Len(path) : path[i] = 47})

\* the path up to its last '/'
ParentPath(path) ==
    LET cuts == {i \in 1..Len(path) : path[i] = 47} IN
    IF cuts = {} THEN <<>>
    ELSE SubSeq(path, 1, (CHOOSE i \in cuts : \A k \in cuts : k <= i) - 1)

Opened == stage \in {"open", "traversing", "done"}

\* C7: WzReader::open fails, and leaves no reader, when the magic is not
\* PKG1 or the u16 at data_offset is not the configured version's encrypted
\* form; after a successful open root_offset is data_offset + 2, and
\* read_root_dir returns the directory stored from that position on.
C7_OpenAndRootDir ==
    /\ (stage # "start"
          /\ (SubSeq(file, 1, 4) # PKG1
                \/ StoredVersion # encrypted_version(input.cfg_version)))
         => (stage = "failed" /\ rdr = None /\ ~output.open.ok)
    /\ Opened => /\ root_offset(rdr, input.checked).ok
                 /\ Pos(root_offset(rdr, input.checked).v) = DataOffsetField + 2
    /\ (Opened /\ output.root # None)
         => /\ output.root = Ok(ExpectedDir(LayoutWith(input, crypto), 1))
            /\ LayoutWith(input, crypto).dir_off[1] = DataOffsetField + 2

C7_Witness ==
    /\ stage = "open"
    /\ output.root # None
    /\ output.root.ok
    /\ Len(output.root.v) = MaxRoot
    /\ \E i \in 1..MaxRoot : output.root.v[i].tag = "Link"

IsSingleImage ==
    /\ ArchDirs(input) = << <<Entry("Img", 1, 0)>> >>
    /\ input.version = 95
    /\ input.cfg_version = 95
    /\ input.region = "GMS"

X_IMG == <<88>> \o DOT_IMG

C10_BreadthFirst ==
    /\ \A i \in 1..Len(items) : items[i].ok
    /\ \A i, j \in 1..Len(items) :
           i < j => Depth(items[i].v.path) <= Depth(items[j].v.path)
    /\ stage = "done" =>
           LET lay == LayoutWith(input, crypto) IN
           \A k \in 1..Len(lay.dirs) :
               SelectSeq(items, LAMBDA it : ParentPath(it.v.path) = DirPath(lay.dirs, k))
                   = ExpectedYield(lay, k)

C10_Witness ==
    /\ stage = "done"
    /\ Places(ArchDirs(input), {"Link"}) # <<>>
    /\ Places(ArchDirs(input), {"Nil"}) # <<>>
    /\ \E a, b \in 1..MaxRoot :
           /\ a < b
           /\ b <= Len(ArchDirs(input)[1])
           /\ ArchDirs(input)[1][a].kind = "Dir"
           /\ ArchDirs(input)[1][b].kind \in {"Img", "Link"}
    /\ \E i, j \in 1..Len(items) : Depth(items[i].v.path) < Depth(items[j].v.path)

\* the stream position of the offset field of the entry at place p
OffsetFieldPos(lay, p) ==
    lay.ent_pos[p[1]][p[2]]
        + EntryLen(crypto, lay.dirs[p[1]][p[2]], lay.dirs[p[1]][p[2]]) - 4

\* the four bytes of the file at stream position pos, decrypted for
\* position at
DecryptedAt(pos, at) ==
    decrypt_offset(crypto, SubSeq(file, pos + 1, pos + 4), U32(at), input.checked)

\* the place whose offset field an Img or Link entry's header comes from
HeaderPlace(lay, k, i) ==
    IF lay.dirs[k][i].kind = "Link" THEN lay.target ELSE <<k, i>>

InRange(off) ==
    /\ Fits31(off)
    /\ DataOffsetField <= LeVal(off)
    /\ LeVal(off) < FileSizeField

-----------------------------------------------------------------------------
(* util/mod.rs: the checksum.  An i32 is a number; the buffered input is   *)
(* the file's bytes and the stream position, and fill_buf returns a        *)
(* non-empty run of the bytes from the position on unless none is left.    *)

\* acc.overflowing_add(b as i32).0, b a byte
overflowing_add(acc, b) ==
    IF acc > I32_MAX - b THEN ((acc + I32_MIN) + b) + I32_MIN ELSE acc + b

\* wz_checksum restarted from 0 whatever the seed
wz_checksum_unseeded(seed, data) ==
    LET F[i \in 0..Len(data)] ==
            IF i = 0 THEN 0 ELSE overflowing_add(F[i - 1], data[i])
    IN  F[Len(data)]

\* util::wz_checksum: the fold of overflowing_add over data, from seed
wz_checksum(seed, data) ==
    LET F[i \in 0..Len(data)] ==
            IF i = 0 THEN seed ELSE overflowing_add(F[i - 1], data[i])
    IN  F[Len(data)]

\* BufRead::fill_buf of a buffer that holds at most cap bytes: the bytes
\* from pos on
fill_buf(data, pos, cap) ==
    IF pos >= Len(data) THEN <<>>
    ELSE SubSeq(data, pos + 1, IF pos + cap <= Len(data) THEN pos + cap
                               ELSE Len(data))

\* usize::min
min(a, b) == IF a <= b THEN a ELSE b

(* The driver of the checksum: WzReader::checksum(offset, ln) on an input  *)
(* at some position; each turn of the loop of BufReadExt::wz_checksum      *)
(* finds a buffer of its own length; output.lens is the lengths consumed   *)
(* so far.                                                                 *)

MaxData == 3

MaxChunk == 2

ChecksumBytes == {1, 255}

ChecksumFiles ==
    UNION {[1..n -> ChecksumBytes] : n \in 0..MaxData}

InitChecksum ==
    /\ stage = "start"
    /\ input \in [offset : 0..(MaxData + 1), ln : 0..(MaxData + 1)]
    /\ file \in ChecksumFiles
    /\ rdr \in [pos : 0..1]
    /\ output = None
    /\ crypto = None
    /\ q = <<>>
    /\ items = <<>>

\* WzReader::checksum up to the loop: remember the position, seek to offset
ChecksumEnter ==
    /\ stage = "start"
    /\ output' = [old |-> rdr.pos, checksum |-> 0, n |-> input.ln, lens |-> <<>>]
    /\ rdr' = [pos |-> input.offset]
    /\ stage' = "loop"
    /\ UNCHANGED <<input, crypto, file, q, items>>

\* one turn of `while n > 0` in BufReadExt::wz_checksum
ChecksumFill ==
    /\ stage = "loop"
    /\ output.n > 0
    /\ \E cap \in 1..MaxChunk :
       \E buf \in {fill_buf(file, rdr.pos, cap)} :
          IF buf = <<>>
          THEN /\ output' = [old |-> output.old, lens |-> output.lens,
                             res |-> Err("UnexpectedEof")]
               /\ stage' = "done"
               /\ UNCHANGED rdr
          ELSE \E l \in {min(Len(buf), output.n)} :
               /\ output' = [output EXCEPT
                                !.checksum = wz_checksum(@, SubSeq(buf, 1, l)),
                                !.n = @ - l,
                                !.lens = Append(@, l)]
               /\ rdr' = [pos |-> rdr.pos + l]
               /\ UNCHANGED stage
    /\ UNCHANGED <<input, crypto, file, q, items>>

\* the loop is left: Ok(checksum), and WzReader::checksum seeks back
ChecksumLeave ==
    /\ stage = "loop"
    /\ output.n = 0
    /\ output' = [old |-> output.old, lens |-> output.lens,
                  res |-> Ok(output.checksum)]
    /\ rdr' = [pos |-> output.old]
    /\ stage' = "done"
    /\ UNCHANGED <<input, crypto, file, q, items>>

NextChecksum == ChecksumEnter \/ ChecksumFill \/ ChecksumLeave

SpecChecksum == InitChecksum /\ [][NextChecksum]_vars

\* the sum of the bytes of data in [from, from + n)
RECURSIVE SumOfBytes(_, _, _)
SumOfBytes(data, from, n) ==
    IF n = 0 THEN 0 ELSE data[from + 1] + SumOfBytes(data, from + 1, n - 1)

\* C11: checksum(offset, ln) is the sum of the bytes in [offset, offset+ln)
\* whatever the lengths of the buffers fill_buf returned; it is an
\* UnexpectedEof error when the input ends before ln bytes; on success the
\* stream position is the one before the call.
C11_Checksum ==
    stage = "done" =>
        IF input.offset + input.ln <= Len(file) \/ input.ln = 0
        THEN /\ output.res = Ok(SumOfBytes(file, input.offset, input.ln))
             /\ rdr.pos = output.old
        ELSE output.res = Err("UnexpectedEof")

C11_Witness ==
    /\ stage = "done"
    /\ input.ln = MaxData
    /\ input.offset = 0
    /\ Len(file) = MaxData
    /\ output.res.ok
    /\ output.res.v > 255
    /\ output.lens = <<1, 2>>
    /\ output.old = 1
    /\ rdr.pos = 1

-----------------------------------------------------------------------------
(* l1/canvas.rs and canvas.rs: the canvas header and the conversion of a   *)
(* raw bitmap to RGBA.                                                     *)
(*                                                                         *)
(* A WzCanvas is [width, height, depth, scale], width and height as the    *)
(* u32 the accessors return.  A Canvas carries, besides its fields, the    *)
(* alignment of the address of its data: a Vec<u8> is aligned to 1 when    *)
(* empty and to whatever the allocator returned otherwise.  An RgbaImage   *)
(* is [w, h, buf], buf its bytes, four a pixel, row after row.  The        *)
(* colours the block codec computes are outside the model: a byte it       *)
(* writes is BcByte.                                                       *)

\* WzCanvasScaling::factor
factor(scale) == Pow2(scale)

\* WzCanvasDepth::depth_size
depth_size(depth) ==
    CASE depth = "BGRA4444" -> 2
      [] depth = "BGRA8888" -> 4
      [] depth = "BGR565" -> 2
      [] depth = "DXT3" -> 1
      [] depth = "DXT5" -> 1

\* WzCanvas::raw_height
raw_height(c) == c.height \div factor(c.scale)

\* WzCanvas::raw_width
raw_width(c) == c.width \div factor(c.scale)

\* WzCanvas::raw_pixels
raw_pixels(c) == raw_width(c) * raw_height(c)

\* WzCanvas::raw_bitmap_size
raw_bitmap_size(c) == raw_pixels(c) * depth_size(c.depth)

\* Canvas::from_data
Canvas_from_data(data, align, wz_canvas) ==
    [data |-> data, align |-> align,
     depth |-> wz_canvas.depth,
     width |-> wz_canvas.width,
     height |-> wz_canvas.height,
     scale |-> wz_canvas.scale,
     raw_w |-> raw_width(wz_canvas),
     raw_h |-> raw_height(wz_canvas)]

\* the channel bits left where they are found, not scaled up to a byte
bit_pix_low_bits(N, v, shift) == ((v \div Pow2(shift)) % Pow2(N)) % 256

\* bit_pix::<N>(v, shift)
bit_pix(N, v, shift) == (((v \div Pow2(shift)) % Pow2(N)) % 256) * Pow2(8 - N)

\* bgra4_to_rgba8 on a u16
bgra4_to_rgba8(v) ==
    <<bit_pix(4, v, 8), bit_pix(4, v, 4), bit_pix(4, v, 0), bit_pix(4, v, 12)>>

\* bgr565_to_rgba8 on a u16
bgr565_to_rgba8(v) ==
    <<bit_pix(5, v, 11), bit_pix(6, v, 5), bit_pix(5, v, 0), 255>>

\* bgra8_to_rgba8 on a u32 given by its bytes: v.to_le_bytes()
bgra8_to_rgba8(v) == v

\* bytemuck::cast_slice of bytes to words of size bytes: a panic when the
\* address is not aligned to the word or the length is no multiple of it
cast_slice(data, align, size) ==
    IF align % size # 0 THEN Err("cast_slice: TargetAlignmentGreaterAndInputNotAligned")
    ELSE IF Len(data) % size # 0 THEN Err("cast_slice: OutputSliceWouldHaveSlop")
    ELSE Ok(<<>> \o [i \in 1..(Len(data) \div size) |->
                        SubSeq(data, size * (i - 1) + 1, size * i)])

\* data[ix] of a slice: a panic past the end
index(words, ix) ==
    IF ix < Len(words) THEN Ok(words[ix + 1]) ELSE Err("index out of bounds")

\* RgbaImage::from_fn(w, h, f): f(x, y) for every pixel, row after row
from_fn(w, h, f(_, _)) ==
    Bind(<<>> \o [i \in 1..(w * h) |-> f((i - 1) % w, (i - 1) \div w)], LAMBDA px :
        IF \E i \in 1..Len(px) : ~px[i].ok
        THEN px[CHOOSE i \in 1..Len(px) : ~px[i].ok /\ \A j \in 1..(i - 1) : px[j].ok]
        ELSE Ok([w |-> w, h |-> h,
                 buf |-> <<>> \o [k \in 1..(4 * w * h) |->
                                     px[((k - 1) \div 4) + 1].v[((k - 1) % 4) + 1]]]))

\* RgbaImage::from_raw(w, h, buf): None when buf is shorter than the image
from_raw(w, h, buf) ==
    IF w * h * 4 <= Len(buf) THEN Ok([w |-> w, h |-> h, buf |-> buf]) ELSE None

BcByte == -1

\* the count of 4x4 blocks that cover n pixels in a row
num_blocks(n) == (n + 3) \div 4

\* texpresso's Format::decompress of 16-byte blocks into an output of
\* out_len bytes: the ways it can end.  It fills the output when the data
\* holds every block and the output every pixel; otherwise it panics or
\* returns early, depending on which bound the codec meets first.
decompress(data, width, height, out_len) ==
    IF /\ Len(data) >= num_blocks(width) * num_blocks(height) * 16
       /\ out_len >= width * height * 4
    THEN {Ok(<<>> \o [k \in 1..out_len |-> BcByte])}
    ELSE {Ok(<<>> \o [k \in 1..out_len |-> IF k <= 4 * width THEN BcByte ELSE 0]),
          Err("index out of bounds")}

\* Canvas::to_raw_rgba_image: the ways it can end, Ok(image), Err(text) of
\* an anyhow error or of a panic
to_raw_rgba_image(cv) ==
    Bind(cv.raw_w, LAMBDA w : Bind(cv.raw_h, LAMBDA h :
    CASE cv.depth = "BGRA4444" ->
           {Try(cast_slice(cv.data, cv.align, 2), LAMBDA data :
                from_fn(w, h, LAMBDA x, y :
                    Try(index(data.v, x + y * cv.width), LAMBDA v :
                        Ok(bgra4_to_rgba8(LeVal(v.v))))))}
      [] cv.depth = "BGRA8888" ->
           {Try(cast_slice(cv.data, cv.align, 4), LAMBDA data :
                from_fn(w, h, LAMBDA x, y :
                    Try(index(data.v, x + y * cv.width), LAMBDA v :
                        Ok(bgra8_to_rgba8(v.v)))))}
      [] cv.depth = "BGR565" ->
           {Try(cast_slice(cv.data, cv.align, 2), LAMBDA data :
                from_fn(w, h, LAMBDA x, y :
                    Try(index(data.v, x + y * w), LAMBDA v :
                        Ok(bgr565_to_rgba8(LeVal(v.v))))))}
      [] cv.depth = "DXT3" ->
           {IF ~d.ok THEN d
            ELSE Bind(from_raw(w, h, d.v), LAMBDA img :
                     IF img = None THEN Err("Failed to convert DXT3 to RGBA image")
                     ELSE img) :
            d \in decompress(cv.data, w, h, w * h * 4)}
      [] cv.depth = "DXT5" ->
           {IF ~d.ok THEN d
            ELSE Bind(from_raw(cv.width, cv.height, d.v), LAMBDA img :
                     IF img = None THEN Err("Failed to convert DXT5 to RGBA image")
                     ELSE img) :
            d \in decompress(cv.data, cv.width, cv.height, w * h * 4)}))

(* The driver of the canvas conversion: a canvas header and the bitmap     *)
(* read_canvas_from inflates for it (raw_bitmap_size bytes), made a        *)
(* Canvas, then converted.                                                 *)

MaxRaw == 3

Depths == {"BGRA4444", "BGRA8888", "BGR565", "DXT3", "DXT5"}

\* WzCanvasScaling::try_from accepts 0 and 4
Scales == {0, 4}

\* the widths and heights whose raw size is at most MaxRaw
CanvasDims(scale) ==
    {factor(scale) * n + r : n \in 0..MaxRaw, r \in {0, factor(scale) - 1}}

\* the alignments an allocation of n bytes can have
Aligns(n) == IF n = 0 THEN {1} ELSE {1, 2, 4}

BitmapBytes(n) == <<>> \o [i \in 1..n |-> (i * 37 + 200) % 256]

InitCanvas ==
    /\ stage = "start"
    /\ \E scale \in Scales, depth \in Depths :
       \E width, height \in CanvasDims(scale) :
       \E hdr \in {[width |-> width, height |-> height,
                    depth |-> depth, scale |-> scale]} :
       \E align \in Aligns(raw_bitmap_size(hdr)) :
           input = [canvas |-> hdr, align |-> align,
                    data |-> BitmapBytes(raw_bitmap_size(hdr))]
    /\ output = None
    /\ crypto = None
    /\ ArchiveIdle

FromData ==
    /\ stage = "start"
    /\ output' = [canvas |-> Canvas_from_data(input.data, input.align, input.canvas)]
    /\ stage' = "canvas"
    /\ UNCHANGED <<input, crypto>>
    /\ ArchiveUnchanged

ToRawRgbaImage ==
    /\ stage = "canvas"
    /\ \E img \in to_raw_rgba_image(output.canvas) :
           output' = [canvas |-> output.canvas, img |-> img]
    /\ stage' = "image"
    /\ UNCHANGED <<input, crypto>>
    /\ ArchiveUnchanged

NextCanvas == FromData \/ ToRawRgbaImage

SpecCanvas == InitCanvas /\ [][NextCanvas]_vars

\* n >> k
Shr(n, k) == n \div Pow2(k)

\* C12: for each depth and each scale, to_raw_rgba_image returns an image
\* of dimension (width >> scale, height >> scale) whose pixel buffer has
\* raw_width * raw_height * 4 bytes.
C12_RawDimensions ==
    stage = "image" =>
        /\ output.img.ok
        /\ output.img.v.w = Shr(input.canvas.width, input.canvas.scale)
        /\ output.img.v.h = Shr(input.canvas.height, input.canvas.scale)
        /\ Len(output.img.v.buf) = output.img.v.w * output.img.v.h * 4

-----------------------------------------------------------------------------
(* file.rs and util/mod.rs: reading a canvas payload.                      *)
(*                                                                         *)
(* flate2 is outside the repository.  A zlib stream is the two header      *)
(* bytes, deflate blocks and the Adler-32 of the data; the streams of the  *)
(* model hold stored blocks, the one block type whose decoding needs no    *)
(* code table, and the decoder reports any other block type as an error.   *)

ADLER_MOD == 65521

\* the Adler-32 of data, big endian
adler32(data) ==
    LET A[i \in 0..Len(data)] ==
            IF i = 0 THEN <<1, 0>>
            ELSE Bind(A[i - 1], LAMBDA p :
                 Bind((p[1] + data[i]) % ADLER_MOD, LAMBDA a :
                     <<a, (p[2] + a) % ADLER_MOD>>))
    IN  Bind(A[Len(data)], LAMBDA ab :
            <<ab[2] \div 256, ab[2] % 256, ab[1] \div 256, ab[1] % 256>>)

\* a zlib stream of data in one stored block, flg the second header byte
zlib_stored(flg, data) ==
    <<120, flg, 1>> \o Le(Len(data), 2) \o NotW(Le(Len(data), 2)) \o data
        \o adler32(data)

\* a writer that runs the key stream on over the chunks instead of starting
\* it again for each one
write_chunked_data_running_key(c, chunks) ==
    LET T == <<>> \o transform(c, Concat(chunks))
        W[i \in 0..Len(chunks)] ==
            IF i = 0 THEN [out |-> <<>>, at |-> 0]
            ELSE Bind(W[i - 1], LAMBDA w :
                 [out |-> w.out \o U32(Len(chunks[i]))
                            \o SubSeq(T, w.at + 1, w.at + Len(chunks[i])),
                  at |-> w.at + Len(chunks[i])])
    IN  W[Len(chunks)].out

\* WriteExt::write_chunked_data: (u32 length, transformed bytes) per chunk
write_chunked_data(c, chunks) ==
    LET W[i \in 0..Len(chunks)] ==
            IF i = 0 THEN <<>>
            ELSE W[i - 1] \o U32(Len(chunks[i])) \o (<<>> \o transform(c, chunks[i]))
    IN  W[Len(chunks)]

\* the deflate blocks of s from pos on: the bytes they give before the
\* stream ends (`end` is "end") or fails
RECURSIVE inflate_blocks(_, _, _)
inflate_blocks(s, pos, out) ==
    IF pos >= Len(s) THEN [out |-> out, end |-> "unexpected end of file"]
    ELSE IF (s[pos + 1] \div 2) % 4 = 0
    THEN IF pos + 5 > Len(s) THEN [out |-> out, end |-> "unexpected end of file"]
         ELSE Bind(LeVal(SubSeq(s, pos + 2, pos + 3)), LAMBDA len :
              IF LeVal(SubSeq(s, pos + 4, pos + 5)) # 65535 - len
              THEN [out |-> out, end |-> "corrupt deflate stream"]
              ELSE IF pos + 5 + len > Len(s)
              THEN [out |-> out \o SubSeq(s, pos + 6, Len(s)),
                    end |-> "unexpected end of file"]
              ELSE IF s[pos + 1] % 2 = 1
              THEN [out |-> out \o SubSeq(s, pos + 6, pos + 5 + len), end |-> "end"]
              ELSE inflate_blocks(s, pos + 5 + len,
                                  out \o SubSeq(s, pos + 6, pos + 5 + len)))
    ELSE IF (s[pos + 1] \div 2) % 4 = 3
    THEN [out |-> out, end |-> "corrupt deflate stream"]
    ELSE [out |-> out, end |-> "block with a code table"]

\* the zlib header: deflate with a window of at most 32K, a multiple of
\* 31, no preset dictionary
zlib_header_ok(cmf, flg) ==
    /\ cmf % 16 = 8
    /\ cmf \div 16 <= 7
    /\ (cmf * 256 + flg) % 31 = 0
    /\ (flg \div 32) % 2 = 0

\* BufReadExt::decompress_flate_size on a reader that holds s: read_exact
\* of size bytes from the ZlibDecoder
decompress_flate_size(s, size) ==
    IF size = 0 THEN Ok(<<>>)
    ELSE IF Len(s) < 2 THEN Err("unexpected end of file")
    ELSE IF ~zlib_header_ok(s[1], s[2]) THEN Err("corrupt deflate stream")
    ELSE Bind(inflate_blocks(s, 2, <<>>), LAMBDA r :
             IF Len(r.out) >= size THEN Ok(SubSeq(r.out, 1, size))
             ELSE IF r.end = "end" THEN Err("failed to fill whole buffer")
             ELSE Err(r.end))

\* PeekExt::peek_u16 at pos: the u16 of the next two bytes, the position
\* unchanged
peek_u16(data, pos) ==
    IF pos + 2 <= Len(data) THEN Ok(data[pos + 1] + 256 * data[pos + 2])
    ELSE Err("eof")

\* BufReadExt::read_chunked_data from pos: the buffer and the position
\* after the chunks
RECURSIVE read_chunks(_, _, _, _, _, _)
read_chunks(c, data, pos, chunked_len, i, buf) ==
    IF i >= chunked_len THEN Got(buf, pos)
    ELSE Try(read_u32(data, pos), LAMBDA w :
         IF ~Fits31(w.v) \/ LeVal(w.v) > chunked_len THEN Err("Bad chunk size")
         ELSE Try(read_exact(data, w.pos, LeVal(w.v)), LAMBDA tail :
              read_chunks(c, data, tail.pos, chunked_len, i + 4 + LeVal(w.v),
                          buf \o (<<>> \o transform(c, tail.v)))))

read_chunked_data(c, data, pos, chunked_len) ==
    read_chunks(c, data, pos, chunked_len, 0, <<>>)

\* WzCanvas::data_len
data_len(canvas) == canvas.len.val - 1

\* WzCanvas::data_offset
data_offset(canvas) == canvas.len.pos + 4 + 1

\* WzImgReader::read_canvas_from on a reader that holds s; align is the
\* alignment of the buffer it allocates
read_canvas_from(s, align, canvas) ==
    Try(decompress_flate_size(s, raw_bitmap_size(canvas)), LAMBDA img_buf :
        Ok(Canvas_from_data(img_buf.v, align, canvas)))

\* Read::take(n) of the bytes from pos on
take(data, pos, n) ==
    SubSeq(data, pos + 1, IF pos + n <= Len(data) THEN pos + n ELSE Len(data))

\* WzImgReader::read_canvas on an image that holds data
read_canvas(c, data, align, canvas) ==
    Bind(data_len(canvas), LAMBDA len : Bind(data_offset(canvas), LAMBDA off :
    Try(peek_u16(data, off), LAMBDA hdr :
        IF hdr.v % 256 = 120 /\ (hdr.v \div 8192) % 2 = 0
        THEN read_canvas_from(take(data, off, len), align, canvas)
        ELSE Try(read_chunked_data(c, data, off, len), LAMBDA buf :
                 read_canvas_from(buf.v, align, canvas)))))

(* The driver of the canvas payloads: one pixel buffer, compressed, is     *)
(* stored in one image as a single zlib stream and in another in chunks;   *)
(* read_canvas reads the one, then the other.                              *)

PixWidth == 8

PixRows == 15

\* the second byte of the zlib header: the levels none and best
ZlibFlags == {1, 218}

\* the canvases: DXT3, one byte a pixel
PayloadCanvases ==
    {[width |-> w, height |-> h, depth |-> "DXT3", scale |-> 0] :
        w \in {PixWidth}, h \in {1, PixRows - 1, PixRows}}

\* the lengths of the first chunk
FirstChunks == {1, 2, 119, 120, 121}

\* the ways a stream of n bytes is cut: in one chunk, or a first chunk and
\* the rest in one or two chunks
Chunkings(n) ==
    {<<n>>}
        \cup {<<a, n - a>> : a \in {x \in FirstChunks : x < n}}
        \cup {<<a, 1, n - a - 1>> : a \in {x \in FirstChunks : x + 1 < n}}

\* s cut into chunks of the lengths cut
CutAt(s, cut) ==
    <<>> \o [k \in 1..Len(cut) |->
                SubSeq(s, SumSeq(SubSeq(cut, 1, k - 1)) + 1,
                       SumSeq(SubSeq(cut, 1, k)))]

PayloadPrefix == <<0, 0, 0>>

\* the image: what precedes the canvas, the u32 length, the leading byte,
\* the payload
CanvasImage(payload) == PayloadPrefix \o U32(Len(payload) + 1) \o <<0>> \o payload

InitPayload ==
    /\ stage = "start"
    /\ \E cv \in PayloadCanvases, flg \in ZlibFlags :
       \E stream \in {zlib_stored(flg, BitmapBytes(raw_bitmap_size(cv)))} :
       \E cut \in Chunkings(Len(stream)) :
           input = [canvas |-> cv, stream |-> stream, cut |-> cut,
                    region |-> "GMS", version |-> 95]
    /\ output = None
    /\ crypto = None
    /\ ArchiveIdle

\* the crypto of the image reader, and the two images
BuildPayloads ==
    /\ stage = "start"
    /\ \E c \in {from_cfg([region |-> input.region, version |-> input.version],
                          U32(0))} :
          /\ crypto' = c
          /\ file' = [zlib |-> CanvasImage(input.stream),
                      chunked |-> CanvasImage(
                          write_chunked_data(c, CutAt(input.stream, input.cut)))]
    /\ stage' = "built"
    /\ UNCHANGED <<input, output, rdr, q, items>>

\* the header of the canvas whose payload is the image's
HeaderOf(image) ==
    [width |-> input.canvas.width, height |-> input.canvas.height,
     depth |-> input.canvas.depth, scale |-> input.canvas.scale,
     len |-> [pos |-> Len(PayloadPrefix),
              val |-> Len(image) - Len(PayloadPrefix) - 4]]

ReadZlibFramed ==
    /\ stage = "built"
    /\ \E align \in Aligns(raw_bitmap_size(input.canvas)) :
           output' = [zlib |-> read_canvas(crypto, file.zlib, align,
                                           HeaderOf(file.zlib))]
    /\ stage' = "zlib read"
    /\ UNCHANGED <<input, crypto, file, rdr, q, items>>

ReadChunkedFramed ==
    /\ stage = "zlib read"
    /\ \E align \in Aligns(raw_bitmap_size(input.canvas)) :
           output' = [zlib |-> output.zlib,
                      chunked |-> read_canvas(crypto, file.chunked, align,
                                              HeaderOf(file.chunked))]
    /\ stage' = "both read"
    /\ UNCHANGED <<input, crypto, file, rdr, q, items>>

NextPayload == BuildPayloads \/ ReadZlibFramed \/ ReadChunkedFramed

SpecPayload == InitPayload /\ [][NextPayload]_vars

\* C13: a zlib-framed canvas and a chunked-framed canvas of the same pixel
\* buffer are read to the same bytes, the pixel buffer, however the
\* compressed stream is cut into chunks; no chunked payload is read as a
\* plain zlib stream.
C13_FramingsAgree ==
    stage = "both read" =>
        /\ output.zlib.ok
        /\ output.chunked.ok
        /\ output.zlib.v.data = BitmapBytes(raw_bitmap_size(input.canvas))
        /\ output.chunked.v.data = output.zlib.v.data

-----------------------------------------------------------------------------
(* val.rs: WzValue::get_path.  A path and a key are the sequences of       *)
(* their chars; a lookup returns the value found, or None.                 *)

WzValue_Canvas(canvas, sub) == [ty |-> "Canvas", canvas |-> canvas, sub |-> sub]

\* str::split(sep): the parts between the separators, one more than there
\* are separators
RECURSIVE split_from(_, _, _, _)
split_from(path, sep, i, part) ==
    IF i > Len(path) THEN <<part>>
    ELSE IF path[i] = sep THEN <<part>> \o split_from(path, sep, i + 1, <<>>)
    ELSE split_from(path, sep, i + 1, Append(part, path[i]))

split(path, sep) == split_from(path, sep, 1, <<>>)

\* get_path that descends through Object maps only
RECURSIVE get_parts_objects_only(_, _, _)
get_parts_objects_only(cur, parts, i) ==
    IF i > Len(parts) THEN cur
    ELSE IF cur.ty # "Object" THEN None
    ELSE Bind(map_get(cur.keys, cur.vals, parts[i]), LAMBDA v :
             IF v = None THEN None ELSE get_parts_objects_only(v, parts, i + 1))

get_path_objects_only(val, path) == get_parts_objects_only(val, split(path, 47), 1)

\* the loop of get_path from the i-th part on, cur the current node
RECURSIVE get_parts(_, _, _)
get_parts(cur, parts, i) ==
    IF i > Len(parts) THEN cur
    ELSE Bind(CASE cur.ty = "Object" -> cur
                [] cur.ty = "Canvas" ->
                       IF cur.sub # None /\ cur.sub.ty = "Object" THEN cur.sub
                       ELSE None
                [] OTHER -> None, LAMBDA cur_obj :
         IF cur_obj = None THEN None
         ELSE Bind(map_get(cur_obj.keys, cur_obj.vals, parts[i]), LAMBDA v :
                  IF v = None THEN None ELSE get_parts(v, parts, i + 1)))

\* WzValue::get_path
get_path(val, path) == get_parts(val, split(path, 47), 1)

(* The driver of get_path: a value and the path a/b; get_path(a/b), then   *)
(* get_path(a) and get_path(b) on what it returned.                        *)

PathKeys == {<<97>>, <<98>>, <<>>}

PathLeaves == {WzValue_Int(1), WzValue_Null}

\* a canvas header, as far as a value keeps it
PathCanvas == [scale |-> 0, len |-> [pos |-> 0, val |-> 1]]

\* the objects of one entry over the values vs
ObjectsOver(vs) == {WzValue_Object(<<k>>, <<v>>) : k \in PathKeys, v \in vs}

\* the canvases over the subs
CanvasesOver(subs) == {WzValue_Canvas(PathCanvas, sub) : sub \in subs}

PathLevel1 ==
    ObjectsOver(PathLeaves)
        \cup {WzValue_Object(<<<<97>>, <<98>>>>, <<WzValue_Int(1), WzValue_Int(2)>>)}

PathLevel2 ==
    ObjectsOver(PathLevel1 \cup CanvasesOver(PathLevel1 \cup {None, WzValue_Int(1)}))

PathValues ==
    PathLeaves \cup PathLevel1 \cup PathLevel2
        \cup CanvasesOver(PathLevel1 \cup {None, WzValue_Int(1)})
        \cup CanvasesOver({v \in PathLevel2 : v.keys = <<<<97>>>>})

\* the paths a and b: a key, or two keys and a '/'
PathParts ==
    PathKeys \cup {<<97, 47, 98>>, <<98, 47, 97>>, <<47, 97>>}

InitPath ==
    /\ stage = "start"
    /\ input \in [val : PathValues, a : PathParts, b : PathParts]
    /\ output = None
    /\ crypto = None
    /\ ArchiveIdle

\* get_path("a/b")
GetWhole ==
    /\ stage = "start"
    /\ output' = [whole |-> get_path(input.val, input.a \o <<47>> \o input.b)]
    /\ stage' = "whole"
    /\ UNCHANGED <<input, crypto>>
    /\ ArchiveUnchanged

\* get_path("a")
GetFirst ==
    /\ stage = "whole"
    /\ output' = [whole |-> output.whole, first |-> get_path(input.val, input.a)]
    /\ stage' = "first"
    /\ UNCHANGED <<input, crypto>>
    /\ ArchiveUnchanged

\* get_path("b") on the result, when there is one
GetSecond ==
    /\ stage = "first"
    /\ output' = [whole |-> output.whole, first |-> output.first,
                  second |-> IF output.first = None THEN None
                             ELSE get_path(output.first, input.b)]
    /\ stage' = "second"
    /\ UNCHANGED <<input, crypto>>
    /\ ArchiveUnchanged

NextPath == GetWhole \/ GetFirst \/ GetSecond

SpecPath == InitPath /\ [][NextPath]_vars

\* the map a node offers to a path segment: its own when it is an Object,
\* its sub's when it is a Canvas whose sub is an Object
MapOf(val) ==
    IF val.ty = "Object" THEN val
    ELSE IF val.ty = "Canvas" /\ val.sub # None /\ val.sub.ty = "Object" THEN val.sub
    ELSE None

\* C16: get_path of a single segment looks the segment up in the node's
\* map, an Object's own or the sub Object of a Canvas, and is None when the
\* segment is missing or the node is of another variant; get_path("a/b")
\* is get_path("a") followed by get_path("b") on the result.
C16_GetPath ==
    /\ stage = "second" => output.whole = output.second
    /\ (stage \in {"first", "second"} /\ \A i \in 1..Len(input.a) : input.a[i] # 47) =>
           output.first = IF MapOf(input.val) = None THEN None
                          ELSE map_get(MapOf(input.val).keys, MapOf(input.val).vals,
                                       input.a)

C16_Witness ==
    /\ stage = "second"
    /\ input.val.ty = "Object"
    /\ input.a = <<97>>
    /\ input.b = <<98>>
    /\ output.first # None
    /\ output.first.ty = "Canvas"
    /\ output.whole = WzValue_Int(1)
    /\ output.second = WzValue_Int(1)

-----------------------------------------------------------------------------
(* util/mod.rs: SubReader, and WzReader::img_reader.                       *)
(*                                                                         *)
(* The inner reader is the archive's bytes and its stream position, which  *)
(* may lie past the end.  A SeekFrom is [from, p].  A u64 that wrapped     *)
(* below zero is written as the negative number congruent to it.           *)

\* Seek::seek of the inner reader: the new position, or an error for a
\* position before the start
inner_seek(data, pos, to) ==
    Bind(CASE to.from = "Start"   -> to.p
           [] to.from = "Current" -> pos + to.p
           [] to.from = "End"     -> Len(data) + to.p, LAMBDA np :
        IF np < 0 THEN Err("invalid seek to a negative position") ELSE Ok(np))

\* SubReader::new
SubReader_new(offset, size) == [offset |-> offset, size |-> size]

\* impl Seek for SubReader: the inner reader's new position and the
\* position reported
SubReader_seek(sub, data, pos, to, checked) ==
    Bind(CASE to.from = "Current" -> to
           [] to.from = "End"     -> [from |-> "End", p |-> (sub.offset + sub.size) + to.p]
           [] to.from = "Start"   -> [from |-> "Start", p |-> to.p + sub.offset],
         LAMBDA inner_to :
    Bind(inner_seek(data, pos, inner_to), LAMBDA r :
        IF ~r.ok THEN [pos |-> pos, res |-> r]
        ELSE IF r.v < sub.offset /\ checked
        THEN [pos |-> r.v, res |-> Err("overflow")]
        ELSE [pos |-> r.v, res |-> Ok(r.v - sub.offset)]))

\* impl Read for SubReader, a buffer of n bytes of which k are filled: the
\* positions in the archive of the bytes returned
SubReader_read(sub, data, pos, k) ==
    <<>> \o [i \in 1..k |-> pos + i - 1]

\* how many bytes a read into a buffer of n bytes can return at pos
ReadLens(data, pos, n) ==
    IF pos >= Len(data) \/ n = 0 THEN {0}
    ELSE 1..(IF pos + n <= Len(data) THEN n ELSE Len(data) - pos)

(* The driver of the image reader's input: img_reader(hdr) on an archive,  *)
(* then reads and seeks through the SubReader.                             *)

ArchiveLen == 5

MaxBlob == 2

MaxOps == 3

SubSeeks ==
    [from : {"Start"}, p : 0..(MaxBlob + 1)]
        \cup [from : {"Current"}, p : {-2, -1, 1}]
        \cup [from : {"End"}, p : {-1, 0}]

InitSub ==
    /\ stage = "start"
    /\ input \in [offset : 1..2, blob_size : 0..MaxBlob, checked : BOOLEAN]
    /\ file = [i \in 1..ArchiveLen |-> i]
    /\ rdr = [pos |-> 0]
    /\ output = None
    /\ crypto = None
    /\ q = <<>>
    /\ items = <<>>

\* WzReader::img_reader: set_pos(hdr.offset), then the SubReader over
\* (hdr.offset, hdr.blob_size)
ImgReader ==
    /\ stage = "start"
    /\ rdr' = [pos |-> input.offset, sub |-> SubReader_new(input.offset, input.blob_size)]
    /\ output' = [op |-> "img_reader", n |-> 0]
    /\ stage' = "reading"
    /\ UNCHANGED <<input, crypto, file, q, items>>

\* Read::read through the SubReader
SubRead ==
    /\ stage = "reading"
    /\ output.n < MaxOps
    /\ \E n \in 1..2 : \E k \in ReadLens(file, rdr.pos, n) :
          /\ output' = [op |-> "read", n |-> output.n + 1,
                        at |-> SubReader_read(rdr.sub, file, rdr.pos, k)]
          /\ rdr' = [rdr EXCEPT !.pos = @ + k]
    /\ UNCHANGED <<stage, input, crypto, file, q, items>>

\* Seek::seek through the SubReader
SubSeek ==
    /\ stage = "reading"
    /\ output.n < MaxOps
    /\ \E to \in SubSeeks :
       \E r \in {SubReader_seek(rdr.sub, file, rdr.pos, to, input.checked)} :
          /\ output' = [op |-> "seek", n |-> output.n + 1, to |-> to, res |-> r.res]
          /\ rdr' = [rdr EXCEPT !.pos = r.pos]
          /\ stage' = IF ~r.res.ok /\ r.res.err = "overflow" THEN "panicked" ELSE stage
    /\ UNCHANGED <<input, crypto, file, q, items>>

NextSub == ImgReader \/ SubRead \/ SubSeek

SpecSub == InitSub /\ [][NextSub]_vars

\* C17: through the reader img_reader(hdr) returns, no read returns a byte
\* outside [hdr.offset, hdr.offset + hdr.blob_size); seek(Start(p)) lands
\* at archive position hdr.offset + p and reports p; seek(End(0)) reports
\* blob_size.
C17_Confined ==
    /\ (stage = "reading" /\ output.op = "read") =>
           \A i \in 1..Len(output.at) :
               /\ input.offset <= output.at[i]
               /\ output.at[i] < input.offset + input.blob_size
    /\ (stage = "reading" /\ output.op = "seek" /\ output.to.from = "Start") =>
           /\ output.res = Ok(output.to.p)
           /\ rdr.pos = input.offset + output.to.p
    /\ (stage = "reading" /\ output.op = "seek" /\ output.to = [from |-> "End", p |-> 0]) =>
           output.res = Ok(input.blob_size)

-----------------------------------------------------------------------------
(* val.rs: SoundVal and the JSON form of WzValue::Sound.                   *)
(*                                                                         *)
(* A WzSound is [size, len_ms, pos]: the length of the audio bytes, the    *)
(* play time in milliseconds, the position of the audio bytes.             *)

WzValue_Sound(sound) == [ty |-> "Sound", sound |-> sound]

\* impl Serialize for SoundVal
SoundVal_serialize(val) ==
    JsonObj(<<"$ty", "playTime">>, <<JsonStr("sound"), JsonInt(val.sound.len_ms)>>)

(* The driver: serde_json::to_value of a Sound, alone and in an Object.    *)

SoundLens == {0, 1, 1500, I32_MAX}

SoundVals == {WzValue_Sound([size |-> 2, len_ms |-> ms, pos |-> 40]) : ms \in SoundLens}

SoundNeighbours == {WzValue_Null, WzValue_Int(7), WzValue_String("SOUND"), WzValue_Vec(-1, 1)}

SoundObjects ==
    {WzValue_Object(<<JsonKeys[1]>>, <<v>>) : v \in SoundVals}
    \cup {WzValue_Object(JsonKeys, <<v, w>>) : v \in SoundVals, w \in SoundNeighbours \cup SoundVals}
    \cup {WzValue_Object(JsonKeys, <<w, v>>) : v \in SoundVals, w \in SoundNeighbours}
    \cup {WzValue_Object(<<JsonKeys[1]>>, <<WzValue_Object(<<JsonKeys[2]>>, <<v>>)>>) :
              v \in SoundVals}

InitSoundJson ==
    /\ stage = "start"
    /\ input \in SoundVals \cup SoundObjects
    /\ output = None
    /\ crypto = None
    /\ ArchiveIdle

SoundToJson ==
    /\ stage = "start"
    /\ output' = [json |-> serialize(input)]
    /\ stage' = "json"
    /\ UNCHANGED <<input, crypto>>
    /\ ArchiveUnchanged

NextSoundJson == SoundToJson

SpecSoundJson == InitSoundJson /\ [][NextSoundJson]_vars

\* the JSON a value has when every Sound in it is the map of its play time
RECURSIVE SoundsAsMaps(_)
SoundsAsMaps(val) ==
    CASE val.ty = "Sound"  -> SoundVal_serialize(val)
      [] val.ty = "Object" ->
             JsonObj(val.keys,
                     <<>> \o [i \in 1..Len(val.vals) |-> SoundsAsMaps(val.vals[i])])
      [] OTHER -> serialize(val)

\* C18: serializing WzValue::Sound to JSON emits the map
\* {"$ty":"sound","playTime":ms} with ms the sound's length in
\* milliseconds, for a top-level Sound and for a Sound nested in an Object.
C18_SoundJson ==
    stage = "json" => output.json = SoundsAsMaps(input)

-----------------------------------------------------------------------------
(* l1/sound.rs: the sound header, and WzImgReader::read_sound.             *)
(*                                                                         *)
(* A Uuid is its sixteen bytes in the order its text shows them.  The      *)
(* image reader is the archive's bytes, the position in them, and the      *)
(* SubReader of the image; positions it reports are the SubReader's.       *)

WAVE_HEADER_SIZE == 18

PCM_HEADER_SIZE == 44

WAVE_FORMAT_PCM == 1

WAVE_FORMAT_MP3 == 85

GuidTail == <<82, 79, 17, 206, 159, 83, 0, 32, 175, 11, 167, 112>>

MEDIA_TYPE_STREAM == <<228, 54, 235, 131>> \o GuidTail

MEDIA_SUBTYPE_MPEG1_PACKET == <<228, 54, 235, 135>> \o GuidTail

MEDIA_SUBTYPE_WAVE == <<228, 54, 235, 139>> \o GuidTail

\* uuid::Uuid::from_bytes_le and to_bytes_le: the first three fields are
\* byte-swapped
from_bytes_le(b) ==
    <<b[4], b[3], b[2], b[1], b[6], b[5], b[8], b[7]>> \o SubSeq(b, 9, 16)

\* BinRead for GUID
GUID_read(data, pos) ==
    Try(read_exact(data, pos, 16), LAMBDA r : Got(from_bytes_le(r.v), r.pos))

\* BinRead for MediaHeader
MediaHeader_read(data, pos) ==
    Try(read_exact(data, pos, 1), LAMBDA unknown1 :
    Try(GUID_read(data, unknown1.pos), LAMBDA major_type :
    Try(GUID_read(data, major_type.pos), LAMBDA sub_type :
    Try(read_exact(data, sub_type.pos, 2), LAMBDA sample_size :
    Try(GUID_read(data, sample_size.pos), LAMBDA format_type :
        Got([major_type |-> major_type.v, sub_type |-> sub_type.v], format_type.pos))))))

\* BinRead for WaveHeader, from the cursor over the header bytes: the format
WaveHeader_read(hdr) ==
    Try(read_exact(hdr, 0, WAVE_HEADER_SIZE), LAMBDA r : Got(LeVal(SubSeq(r.v, 1, 2)), r.pos))

\* BinRead for Mpeg3WaveHeader, from the rewound cursor
Mpeg3WaveHeader_read(hdr) ==
    Try(WaveHeader_read(hdr), LAMBDA wav : read_exact(hdr, wav.pos, 12))

\* the format of a WAVE sub type
wave_fmt(hdr) ==
    Try(WaveHeader_read(hdr), LAMBDA wave :
        IF wave.v = WAVE_FORMAT_PCM THEN Ok("Pcm")
        ELSE IF wave.v = WAVE_FORMAT_MP3
        THEN Try(Mpeg3WaveHeader_read(hdr), LAMBDA m : Ok("Mpeg3"))
        ELSE Err("not yet implemented: Invalid wave format"))

\* BinRead for SoundHeader: the format and the position after the header
SoundHeader_read(data, pos) ==
    Try(MediaHeader_read(data, pos), LAMBDA media_header :
        IF media_header.v.major_type # MEDIA_TYPE_STREAM
        THEN Err("Invalid sound major type")
        ELSE
    Try(read_exact(data, media_header.pos, 1), LAMBDA hdr_len :
    Try(read_exact(data, hdr_len.pos, hdr_len.v[1]), LAMBDA hdr :
        IF media_header.v.sub_type = MEDIA_SUBTYPE_MPEG1_PACKET
        THEN IF Len(hdr.v) = 73 THEN Got("Mpeg1", hdr.pos)
             ELSE Err("unwrap on an Err value")
        ELSE IF media_header.v.sub_type = MEDIA_SUBTYPE_WAVE
        THEN Try(wave_fmt(hdr.v), LAMBDA fmt : Got(fmt.v, hdr.pos))
        ELSE Err("Unknown sound sub type"))))

\* Seek::stream_position of the image reader
stream_position(r, data, checked) ==
    SubReader_seek(r.sub, data, r.pos, [from |-> "Current", p |-> 0], checked).res

\* BinRead for WzSound through the image reader r
WzSound_read(r, data, checked) ==
    Try(read_exact(data, r.pos, 1), LAMBDA unknown :
    Try(WzInt_read(data, unknown.pos), LAMBDA size :
    Try(WzInt_read(data, size.pos), LAMBDA len_ms :
    Try(SoundHeader_read(data, len_ms.pos), LAMBDA header :
    Try(stream_position([r EXCEPT !.pos = header.pos], data, checked), LAMBDA offset :
        Got([size |-> size.v, len_ms |-> len_ms.v, fmt |-> header.v, pos |-> offset.v],
            header.pos))))))

\* data_size with no allowance for the PCM header
data_size_no_header(sound, checked) == Ok(sound.size)

\* WzSound::data_size: a usize past isize::MAX is written as the negative
\* number congruent to it
data_size(sound, checked) ==
    Bind(IF sound.fmt = "Pcm" THEN PCM_HEADER_SIZE ELSE 0, LAMBDA extra :
        IF sound.size < 0 /\ sound.size + extra >= 0 /\ checked
        THEN Err("overflow")
        ELSE Ok(sound.size + extra))

\* WzImgReader::read_sound: the result, and the reader's position after it
read_sound(r, data, sound, checked) ==
    Bind(data_size(sound, checked), LAMBDA ln :
        IF ~ln.ok THEN [res |-> ln, pos |-> r.pos]
        ELSE
    Bind(SubReader_seek(r.sub, data, r.pos, [from |-> "Start", p |-> sound.pos], checked),
         LAMBDA sk :
        IF ~sk.res.ok THEN sk
        ELSE IF ~alloc(ln.v).ok THEN [res |-> alloc(ln.v), pos |-> sk.pos]
        ELSE
    Bind(read_exact(data, sk.pos, ln.v), LAMBDA rd :
        IF rd.ok THEN [res |-> Ok(rd.v), pos |-> rd.pos]
        ELSE [res |-> rd, pos |-> sk.pos])))

(* The driver of the sounds: an image holding one Sound_DX8 body, read     *)
(* through the SubReader of the image, then read_sound.                    *)

SoundKinds == {"Pcm", "Mpeg3", "Mpeg1", "Mpeg1Short", "WaveOther", "WaveShort",
               "Mpeg3Short", "MajorOther", "SubOther"}

SoundSizes == {-50, -10, 0, 3, 130}

SoundAvail == {0, 3, 47, 48, 180}

\* to_bytes_le of the GUID written
GuidBytes(u) == from_bytes_le(u)

Fill(n, b) == [i \in 1..n |-> b]

SoundHdr(kind) ==
    CASE kind \in {"Pcm", "MajorOther", "SubOther"} ->
             Le(WAVE_FORMAT_PCM, 2) \o Fill(WAVE_HEADER_SIZE - 2, 0)
      [] kind = "Mpeg3"      -> Le(WAVE_FORMAT_MP3, 2) \o Fill(14, 0) \o Le(12, 2) \o Fill(12, 1)
      [] kind = "Mpeg3Short" -> Le(WAVE_FORMAT_MP3, 2) \o Fill(16, 0)
      [] kind = "Mpeg1"      -> Fill(73, 2)
      [] kind = "Mpeg1Short" -> Fill(WAVE_HEADER_SIZE, 2)
      [] kind = "WaveOther"  -> Le(2, 2) \o Fill(16, 0)
      [] kind = "WaveShort"  -> Le(WAVE_FORMAT_PCM, 2) \o Fill(8, 0)

SoundSub(kind) ==
    CASE kind \in {"Mpeg1", "Mpeg1Short"} -> MEDIA_SUBTYPE_MPEG1_PACKET
      [] kind = "SubOther" -> MEDIA_TYPE_STREAM
      [] OTHER -> MEDIA_SUBTYPE_WAVE

\* the bytes of the WzSound up to its payload
SoundBody(in) ==
    <<0>> \o WzInt_write(in.size) \o WzInt_write(1500)
        \o <<1>>
        \o GuidBytes(IF in.kind = "MajorOther" THEN MEDIA_SUBTYPE_WAVE ELSE MEDIA_TYPE_STREAM)
        \o GuidBytes(SoundSub(in.kind))
        \o <<0, 0>>
        \o GuidBytes(MEDIA_SUBTYPE_WAVE)
        \o <<Len(SoundHdr(in.kind))>> \o SoundHdr(in.kind)

\* the archive: bytes before the image, the image, the payload at its end
SoundArchive(in) ==
    Fill(in.offset, 9) \o Fill(in.at, 8) \o SoundBody(in)
        \o [i \in 1..in.avail |-> 10 + (i % 200)]

\* the archive position of the payload
PayloadStart(in) == in.offset + in.at + Len(SoundBody(in))

InitSound ==
    /\ stage = "start"
    /\ input \in [kind : SoundKinds, size : SoundSizes, avail : SoundAvail,
                  offset : {0, 3}, at : {0, 2}, checked : BOOLEAN]
    /\ file = SoundArchive(input)
    /\ rdr = [pos |-> input.offset + input.at,
              sub |-> SubReader_new(input.offset, Len(file) - input.offset)]
    /\ output = None
    /\ crypto = None
    /\ q = <<>>
    /\ items = <<>>

\* WzObject::read of a Sound_DX8: the WzSound
ReadSoundHeader ==
    /\ stage = "start"
    /\ \E r \in {WzSound_read(rdr, file, input.checked)} :
          /\ output' = [sound |-> r]
          /\ rdr' = IF r.ok THEN [rdr EXCEPT !.pos = r.pos] ELSE rdr
          /\ stage' = IF r.ok THEN "sound" ELSE "failed"
    /\ UNCHANGED <<input, crypto, file, q, items>>

\* the reader is used for something else: it is left at another position
SoundSeekAway ==
    /\ stage = "sound"
    /\ \E p \in {0, 1, Len(file)} : rdr' = [rdr EXCEPT !.pos = p]
    /\ stage' = "sound moved"
    /\ UNCHANGED <<input, output, crypto, file, q, items>>

\* WzImgReader::read_sound
ReadSound ==
    /\ stage \in {"sound", "sound moved"}
    /\ \E r \in {read_sound(rdr, file, output.sound.v, input.checked)} :
          /\ output' = [sound |-> output.sound, res |-> r.res, from |-> rdr.pos]
          /\ rdr' = [rdr EXCEPT !.pos = r.pos]
    /\ stage' = "sound read"
    /\ UNCHANGED <<input, crypto, file, q, items>>

NextSound == ReadSoundHeader \/ SoundSeekAway \/ ReadSound

SpecSound == InitSound /\ [][NextSound]_vars

\* the data_size of the sound written: 44 more than size for PCM
SizeWritten(in) == IF in.kind = "Pcm" THEN in.size + 44 ELSE in.size

\* C15: read_sound seeks to the payload start recorded in the sound header
\* and reads exactly data_size bytes, data_size = size for MP3 and MPEG1 and
\* size + 44 for PCM: the bytes returned are the input's bytes at
\* [payload_start, payload_start + data_size), and they are returned
\* whenever the input has them.
C15_ReadSound ==
    stage = "sound read" =>
        /\ output.sound.v.pos = PayloadStart(input) - input.offset
        /\ output.res.ok =>
               /\ Len(output.res.v) = SizeWritten(input)
               /\ output.res.v = SubSeq(file, PayloadStart(input) + 1,
                                        PayloadStart(input) + SizeWritten(input))
               /\ rdr.pos = PayloadStart(input) + SizeWritten(input)
        /\ (input.size >= 0 /\ SizeWritten(input) <= input.avail) => output.res.ok

C15_Witness ==
    /\ stage = "sound read"
    /\ input.kind = "Pcm" /\ input.size = 3 /\ input.avail = 48 /\ input.offset = 3
    /\ output.from = 0
    /\ output.res.ok
    /\ Len(output.res.v) = 47
    /\ output.res.v[1] = 11

C15_WitnessMp3 ==
    /\ stage = "sound read"
    /\ input.kind = "Mpeg3" /\ input.size = 130 /\ input.avail = 180
    /\ output.res.ok
    /\ Len(output.res.v) = 130

-----------------------------------------------------------------------------
(* ctx.rs, l1/str.rs, l1/prop.rs, l1/obj.rs, l1/canvas.rs: the objects of  *)
(* an image.                                                               *)
(*                                                                         *)
(* The image reader r is [pos, sub, str_table]: the position in the        *)
(* archive, the SubReader of the image, the string table, a function from  *)
(* the offsets recorded to their strings.  A read returns the value and    *)
(* the reader after it, or an error and the reader with the table as the   *)
(* failed read left it; every operation seeks before it reads, so the      *)
(* position an error leaves behind is read by none.                        *)

LGot(v, r) == [ok |-> TRUE, v |-> v, r |-> r]

LErr(e, r) == [ok |-> FALSE, err |-> e, r |-> r]

LTry(res, F(_)) == CHOOSE out \in {IF x.ok THEN F(x) ELSE x : x \in {res}} : TRUE

\* a read that takes bytes only, on the image reader
Lift(res, r) ==
    IF res.ok THEN LGot(res.v, [r EXCEPT !.pos = res.pos]) ELSE LErr(res.err, r)

\* a call that leaves the reader where it is
Keep(res, r) == IF res.ok THEN LGot(res.v, r) ELSE LErr(res.err, r)

\* u8::read_options on the image reader
l1_u8(data, r) ==
    LTry(Lift(read_exact(data, r.pos, 1), r), LAMBDA b : LGot(b.v[1], b.r))

\* u32::read_options on the image reader: the number, when it fits
l1_u32(data, r) ==
    LTry(Lift(read_exact(data, r.pos, 4), r), LAMBDA w : LGot(Pos(w.v), w.r))

\* WzInt::read_options on the image reader
l1_WzInt(data, r) == Lift(WzInt_read(data, r.pos), r)

\* Seek::seek(SeekFrom::Start(p)) on the image reader
l1_seek(data, r, p, checked) ==
    Bind(SubReader_seek(r.sub, data, r.pos, [from |-> "Start", p |-> p], checked),
         LAMBDA sk :
        IF sk.res.ok THEN LGot(sk.res.v, [r EXCEPT !.pos = sk.pos])
        ELSE LErr(sk.res.err, r))

\* WzStrTable::get
WzStrTable_get(t, offset) ==
    IF offset \in DOMAIN t THEN Ok(t[offset]) ELSE None

\* WzStrTable::must_get, WzImgReadCtx::get_str
get_str(t, offset) ==
    IF WzStrTable_get(t, offset) = None THEN Err("Missing string at offset")
    ELSE WzStrTable_get(t, offset)

\* WzStrTable::insert
WzStrTable_insert(t, offset, str) ==
    [o \in DOMAIN t \cup {offset} |-> IF o = offset THEN str ELSE t[o]]

\* read_str that records the string under the position of its magic byte
read_str_at_magic(c, data, r, checked) ==
    LTry(Keep(stream_position(r, data, checked), r), LAMBDA offset :
    LTry(Lift(WzStr_read(c, data, r.pos), r), LAMBDA str :
        LGot(str.v, [str.r EXCEPT
                        !.str_table = WzStrTable_insert(@, offset.v - 1, str.v)])))

\* WzImgReadCtx::read_str
read_str(c, data, r, checked) ==
    LTry(Keep(stream_position(r, data, checked), r), LAMBDA offset :
    LTry(Lift(WzStr_read(c, data, r.pos), r), LAMBDA str :
        LGot(str.v, [str.r EXCEPT
                        !.str_table = WzStrTable_insert(@, offset.v, str.v)])))

\* the two string forms: the magic of an inline string and of a reference
str_with_magics(c, data, r, checked, inline, ref, what) ==
    LTry(l1_u8(data, r), LAMBDA magic :
        IF magic.v = inline THEN read_str(c, data, magic.r, checked)
        ELSE IF magic.v = ref
        THEN LTry(l1_u32(data, magic.r), LAMBDA v :
                 Keep(get_str(v.r.str_table, v.v), v.r))
        ELSE LErr(what, magic.r))

\* BinRead for WzTypeStr
WzTypeStr_read(c, data, r, checked) ==
    str_with_magics(c, data, r, checked, 115, 27, "Invalid type str magic")

\* BinRead for WzImgStr
WzImgStr_read(c, data, r, checked) ==
    str_with_magics(c, data, r, checked, 0, 1, "Invalid str magic")

OBJ_TYPE_PROPERTY == <<80, 114, 111, 112, 101, 114, 116, 121>>

OBJ_TYPE_CANVAS == <<67, 97, 110, 118, 97, 115>>

OBJ_TYPE_UOL == <<85, 79, 76>>

OBJ_TYPE_VEC2 == <<83, 104, 97, 112, 101, 50, 68, 35, 86, 101, 99, 116, 111, 114, 50, 68>>

OBJ_TYPE_CONVEX2D == <<83, 104, 97, 112, 101, 50, 68, 35, 67, 111, 110, 118, 101, 120, 50, 68>>

OBJ_TYPE_SOUND_DX8 == <<83, 111, 117, 110, 100, 95, 68, 88, 56>>

\* BinRead for WzVector2D
WzVector2D_read(data, r) ==
    LTry(l1_WzInt(data, r), LAMBDA x :
    LTry(l1_WzInt(data, x.r), LAMBDA y :
        LGot([ty |-> "Vec2", x |-> x.v, y |-> y.v], y.r)))

\* BinRead for WzUOL
WzUOL_read(c, data, r, checked) ==
    LTry(l1_u8(data, r), LAMBDA unknown :
    LTry(WzImgStr_read(c, data, unknown.r, checked), LAMBDA entries :
        LGot([ty |-> "UOL", entries |-> entries.v], entries.r)))

\* BinRead for WzConvex2D: the loop over len points
RECURSIVE convex_points(_, _, _, _, _, _)
convex_points(c, data, r, checked, n, v) ==
    IF n = 0 THEN LGot([ty |-> "Convex2D", v |-> v], r)
    ELSE LTry(WzTypeStr_read(c, data, r, checked), LAMBDA t :
         LTry(WzVector2D_read(data, t.r), LAMBDA p :
             convex_points(c, data, p.r, checked, n - 1, Append(v, p.v))))

\* BinRead for WzConvex2D
WzConvex2D_read(c, data, r, checked) ==
    LTry(l1_WzInt(data, r), LAMBDA len :
        IF ~alloc(len.v).ok THEN LErr(alloc(len.v).err, len.r)
        ELSE convex_points(c, data, len.r, checked, len.v, <<>>))

\* TryFrom<WzInt> for WzCanvasDepth
WzCanvasDepth_try_from(v) ==
    Bind(v % 65536, LAMBDA d :
        CASE d = 1    -> Ok("BGRA4444")
          [] d = 2    -> Ok("BGRA8888")
          [] d = 513  -> Ok("BGR565")
          [] d = 1026 -> Ok("DXT3")
          [] d = 2050 -> Ok("DXT5")
          [] OTHER    -> Err("Invalid canvas depth"))

\* TryFrom<u8> for WzCanvasScaling
WzCanvasScaling_try_from(n) ==
    IF n \in {0, 4} THEN Ok(n) ELSE Err("Invalid scaling")

RECURSIVE WzObject_read(_, _, _, _)
RECURSIVE WzProperty_read(_, _, _, _)
RECURSIVE WzPropValue_read(_, _, _, _)
RECURSIVE property_entries(_, _, _, _, _, _)

\* WzObjectValue's reader without the seek to the declared end
WzObjectValue_read_no_seek(c, data, r, checked) ==
    LTry(l1_u32(data, r), LAMBDA len :
    LTry(Keep(stream_position(len.r, data, checked), len.r), LAMBDA pos :
    LTry(WzObject_read(c, data, pos.r, checked), LAMBDA obj :
        LGot([ty |-> "Obj", len |-> len.v, obj |-> obj.v], obj.r))))

\* BinRead for WzObjectValue
WzObjectValue_read(c, data, r, checked) ==
    LTry(l1_u32(data, r), LAMBDA len :
    LTry(Keep(stream_position(len.r, data, checked), len.r), LAMBDA pos :
    LTry(WzObject_read(c, data, pos.r, checked), LAMBDA obj :
    LTry(l1_seek(data, obj.r, pos.v + len.v, checked), LAMBDA after :
        LGot([ty |-> "Obj", len |-> len.v, obj |-> obj.v], after.r)))))

\* BinRead for WzPropValue: the variant of the magic byte
WzPropValue_read(c, data, r, checked) ==
    LTry(l1_u8(data, r), LAMBDA magic :
        CASE magic.v = 0 -> LGot([ty |-> "Null"], magic.r)
          [] magic.v \in {2, 11} ->
                 LTry(Lift(read_exact(data, magic.r.pos, 2), magic.r), LAMBDA w :
                     LGot([ty |-> "Short", w |-> w.v], w.r))
          [] magic.v \in {3, 19} ->
                 LTry(l1_WzInt(data, magic.r), LAMBDA i :
                     LGot([ty |-> "Int", v |-> i.v], i.r))
          [] magic.v = 20 ->
                 LTry(Lift(WzLong_read(data, magic.r.pos), magic.r), LAMBDA w :
                     LGot([ty |-> "Long", w |-> w.v], w.r))
          [] magic.v = 4 ->
                 LTry(l1_WzInt(data, magic.r), LAMBDA i :
                     LGot([ty |-> "F32", bits |-> i.v], i.r))
          [] magic.v = 5 ->
                 LTry(Lift(read_exact(data, magic.r.pos, 8), magic.r), LAMBDA w :
                     LGot([ty |-> "F64", w |-> w.v], w.r))
          [] magic.v = 8 ->
                 LTry(WzImgStr_read(c, data, magic.r, checked), LAMBDA str :
                     LGot([ty |-> "Str", s |-> str.v], str.r))
          [] magic.v = 9 -> WzObjectValue_read(c, data, magic.r, checked)
          [] OTHER -> LErr("no variants matched", magic.r))

\* BinRead for WzPropertyEntry
WzPropertyEntry_read(c, data, r, checked) ==
    LTry(WzImgStr_read(c, data, r, checked), LAMBDA name :
    LTry(WzPropValue_read(c, data, name.r, checked), LAMBDA val :
        LGot([name |-> name.v, val |-> val.v], val.r)))

\* Vec::read_options of count entries
property_entries(c, data, r, checked, n, v) ==
    IF n = 0 THEN LGot(v, r)
    ELSE LTry(WzPropertyEntry_read(c, data, r, checked), LAMBDA e :
             property_entries(c, data, e.r, checked, n - 1, Append(v, e.v)))

\* BinRead for WzProperty; a negative count is a count no input can hold
WzProperty_read(c, data, r, checked) ==
    LTry(Lift(read_exact(data, r.pos, 2), r), LAMBDA unknown :
    LTry(l1_WzInt(data, unknown.r), LAMBDA n :
        IF n.v < 0 THEN LErr("eof", n.r)
        ELSE LTry(property_entries(c, data, n.r, checked, n.v, <<>>), LAMBDA es :
                 LGot([ty |-> "Property", entries |-> es.v], es.r))))

\* BinRead for WzCanvas
WzCanvas_read(c, data, r, checked) ==
    LTry(l1_u8(data, r), LAMBDA unknown :
    LTry(l1_u8(data, unknown.r), LAMBDA has_property :
    LTry(IF has_property.v = 1 THEN WzProperty_read(c, data, has_property.r, checked)
         ELSE LGot(None, has_property.r), LAMBDA property :
    LTry(l1_WzInt(data, property.r), LAMBDA width :
    LTry(l1_WzInt(data, width.r), LAMBDA height :
    LTry(l1_WzInt(data, height.r), LAMBDA d :
    LTry(Keep(WzCanvasDepth_try_from(d.v), d.r), LAMBDA depth :
    LTry(l1_u8(data, depth.r), LAMBDA s :
    LTry(Keep(WzCanvasScaling_try_from(s.v), s.r), LAMBDA scale :
    LTry(l1_u32(data, scale.r), LAMBDA unknown1 :
    LTry(Keep(stream_position(unknown1.r, data, checked), unknown1.r), LAMBDA pos :
    LTry(l1_u32(data, pos.r), LAMBDA len :
        LGot([ty |-> "Canvas", property |-> property.v, width |-> width.v,
              height |-> height.v, depth |-> depth.v, scale |-> scale.v,
              len |-> [val |-> len.v, pos |-> pos.v]], len.r)))))))))))))

\* BinRead for WzObject
WzObject_read(c, data, r, checked) ==
    LTry(WzTypeStr_read(c, data, r, checked), LAMBDA ty_name :
        CASE ty_name.v = OBJ_TYPE_PROPERTY -> WzProperty_read(c, data, ty_name.r, checked)
          [] ty_name.v = OBJ_TYPE_CANVAS   -> WzCanvas_read(c, data, ty_name.r, checked)
          [] ty_name.v = OBJ_TYPE_UOL      -> WzUOL_read(c, data, ty_name.r, checked)
          [] ty_name.v = OBJ_TYPE_VEC2     -> WzVector2D_read(data, ty_name.r)
          [] ty_name.v = OBJ_TYPE_CONVEX2D -> WzConvex2D_read(c, data, ty_name.r, checked)
          [] ty_name.v = OBJ_TYPE_SOUND_DX8 ->
                 LTry(Lift(WzSound_read(ty_name.r, data, checked), ty_name.r), LAMBDA sound :
                     LGot([ty |-> "SoundDX8", sound |-> sound.v], sound.r))
          [] OTHER -> LErr("Invalid obj", ty_name.r))

\* read_root_obj that parses from where the reader stands
read_root_obj_no_rewind(c, data, r, checked) ==
    WzObject_read(c, data, r, checked)

\* WzImgReader::read_root_obj
read_root_obj(c, data, r, checked) ==
    LTry(l1_seek(data, r, 0, checked), LAMBDA rw :
        WzObject_read(c, data, rw.r, checked))

(* The driver of the image reader: an image whose root Property has two    *)
(* entries, the first an embedded object, read through the SubReader of    *)
(* the image over and over, as a whole and field by field.                 *)

ImgStrInline(c, str) == <<0>> \o WzStr_write(c, str)

ImgStrRef(o) == <<1>> \o U32(o)

TypeStrInline(c, str) == <<115>> \o WzStr_write(c, str)

TypeStrRef(o) == <<27>> \o U32(o)

NameA == <<97>>

NameB == <<98>>

NameC == <<99>>

ObjKinds == {"Property", "PropertyRef", "Canvas", "CanvasProp", "Sound", "UOL",
             "Vec2", "Convex2D", "Bad"}

LenDeltas == {-2, 0, 2}

SecondNames == {"inline", "ref_a", "ref_unseen", "ref_type"}

ImgOffset == 2

\* the image up to the first entry's value: the root's type string at 0,
\* its body at 1, the entry's name after the count
RootHead(c) ==
    TypeStrInline(c, OBJ_TYPE_PROPERTY) \o <<0, 0>> \o WzInt_write(2)

NameAPos(c) == Len(RootHead(c))

\* the position of the embedded object's length field
LenFieldPos(c) == Len(RootHead(c) \o ImgStrInline(c, NameA)) + 1

\* the embedded object with the payload its parser leaves unread
EmbeddedObj(c, kind) ==
    CASE kind = "Property" ->
             TypeStrInline(c, OBJ_TYPE_PROPERTY) \o <<0, 0>> \o WzInt_write(1)
                 \o ImgStrInline(c, NameC) \o <<0>>
      [] kind = "PropertyRef" ->
             TypeStrRef(1) \o <<0, 0>> \o WzInt_write(1)
                 \o ImgStrInline(c, NameC) \o <<3, 5>>
      [] kind = "Canvas" ->
             TypeStrInline(c, OBJ_TYPE_CANVAS) \o <<0, 0>>
                 \o WzInt_write(1) \o WzInt_write(1) \o WzInt_write(2) \o <<0>>
                 \o U32(0) \o U32(4) \o <<0, 120, 1, 2>>
      [] kind = "CanvasProp" ->
             TypeStrInline(c, OBJ_TYPE_CANVAS) \o <<0, 1>>
                 \o <<0, 0>> \o WzInt_write(1) \o ImgStrInline(c, NameC) \o <<0>>
                 \o WzInt_write(1) \o WzInt_write(1) \o WzInt_write(513) \o <<4>>
                 \o U32(0) \o U32(3) \o <<0, 120, 1>>
      [] kind = "Sound" ->
             TypeStrInline(c, OBJ_TYPE_SOUND_DX8)
                 \o SoundBody([kind |-> "Pcm", size |-> 1]) \o Fill(45, 7)
      [] kind = "UOL" ->
             TypeStrInline(c, OBJ_TYPE_UOL) \o <<0>> \o ImgStrRef(NameAPos(c) + 1)
      [] kind = "Vec2" ->
             TypeStrInline(c, OBJ_TYPE_VEC2) \o WzInt_write(0) \o WzInt_write(0)
      [] kind = "Convex2D" ->
             TypeStrInline(c, OBJ_TYPE_CONVEX2D) \o WzInt_write(1)
                 \o TypeStrInline(c, OBJ_TYPE_VEC2) \o WzInt_write(3) \o WzInt_write(-200)
      [] kind = "Bad" -> TypeStrInline(c, NameC)

\* the declared length of the embedded object
DeclaredLen(c, in) == Len(EmbeddedObj(c, in.kind)) + in.delta

\* the second entry
SecondEntry(c, in) ==
    CASE in.second = "inline"     -> ImgStrInline(c, NameB) \o <<3, 7>>
      [] in.second = "ref_a"      -> ImgStrRef(NameAPos(c) + 1) \o <<8>> \o ImgStrRef(NameAPos(c) + 1)
      [] in.second = "ref_unseen" -> ImgStrRef(200) \o <<3, 7>>
      [] in.second = "ref_type"   -> ImgStrRef(1) \o <<0>>

\* the position of the second entry as written
SecondPos(c, in) ==
    LenFieldPos(c) + 4 + Len(EmbeddedObj(c, in.kind)) + (IF in.delta > 0 THEN in.delta ELSE 0)

ImageBytes(c, in) ==
    RootHead(c) \o ImgStrInline(c, NameA) \o <<9>>
        \o U32(DeclaredLen(c, in)) \o EmbeddedObj(c, in.kind)
        \o Fill(IF in.delta > 0 THEN in.delta ELSE 0, 255)
        \o SecondEntry(c, in)

\* the string fields of the image: where each starts, and which reader
\* reads it
StrFields(c, in) ==
    {[at |-> 0, form |-> "type"],
     [at |-> NameAPos(c), form |-> "img"],
     [at |-> LenFieldPos(c) + 4, form |-> "type"],
     [at |-> SecondPos(c, in), form |-> "img"]}

InitImg ==
    /\ stage = "start"
    /\ input \in [kind : ObjKinds, delta : LenDeltas, second : SecondNames,
                  checked : {TRUE}]
    /\ output = None
    /\ crypto = None
    /\ file = <<>>
    /\ rdr = None
    /\ q = <<>>
    /\ items = <<>>

\* WzReader::img_reader and WzImgReader::new on the archive that holds the
\* image
NewImgReader ==
    /\ stage = "start"
    /\ \E c \in {from_cfg([region |-> "GMS", version |-> 95], U32(0))} :
       \E img \in {ImageBytes(c, input)} :
          /\ crypto' = c
          /\ file' = Fill(ImgOffset, 9) \o img
          /\ rdr' = [pos |-> ImgOffset, sub |-> SubReader_new(ImgOffset, Len(img)),
                     str_table |-> <<>>]
    /\ output' = [op |-> "new"]
    /\ stage' = "image"
    /\ UNCHANGED <<input, q, items>>

\* WzImgReader::read_root_obj
ReadRootObj ==
    /\ stage = "image"
    /\ \E res \in {read_root_obj(crypto, file, rdr, input.checked)} :
          /\ output' = [op |-> "read_root_obj", before |-> rdr.str_table,
                        res |-> IF res.ok THEN Ok(res.v) ELSE Err(res.err)]
          /\ rdr' = res.r
    /\ UNCHANGED <<stage, input, crypto, file, q, items>>

\* WzTypeStr / WzImgStr read with the reader's ctx() at one string field
ReadStrField ==
    /\ stage = "image"
    /\ \E f \in StrFields(crypto, input) :
       \E at \in {[rdr EXCEPT !.pos = ImgOffset + f.at]} :
       \E res \in {IF f.form = "type" THEN WzTypeStr_read(crypto, file, at, input.checked)
                   ELSE WzImgStr_read(crypto, file, at, input.checked)} :
          /\ output' = [op |-> "read_str", before |-> rdr.str_table, at |-> f.at,
                        res |-> IF res.ok THEN Ok(res.v) ELSE Err(res.err)]
          /\ rdr' = res.r
    /\ UNCHANGED <<stage, input, crypto, file, q, items>>

\* WzObjectValue read with the reader's ctx() at the first entry's value
ReadObjectValue ==
    /\ stage = "image"
    /\ \E at \in {[rdr EXCEPT !.pos = ImgOffset + LenFieldPos(crypto)]} :
       \E res \in {WzObjectValue_read(crypto, file, at, input.checked)} :
          /\ output' = [op |-> "read_obj_value", before |-> rdr.str_table,
                        res |-> IF res.ok THEN Ok(res.v) ELSE Err(res.err)]
          /\ rdr' = res.r
    /\ UNCHANGED <<stage, input, crypto, file, q, items>>

NextImg == NewImgReader \/ ReadRootObj \/ ReadStrField \/ ReadObjectValue

SpecImg == InitImg /\ [][NextImg]_vars

\* the string field read last
FieldRead == CHOOSE f \in StrFields(crypto, input) : f.at = output.at

\* the bytes of the field read last
FieldBytes == SubSeq(file, ImgOffset + output.at + 1, Len(file))

\* the offset a reference field names
RefTarget == LeVal(SubSeq(FieldBytes, 2, 5))

IsInline == FieldBytes[1] \in {0, 115}

IsRef == FieldBytes[1] \in {1, 27}

\* C19: within one image reader the string table maps each offset to one
\* string.  An inline string is recorded under the position of its body; a
\* reference to offset o returns the string read inline at o; a reference
\* to an offset never read inline is an error; and no read, read_root_obj
\* repeated included, removes an entry or changes its string.
C19_StringTable ==
    (stage = "image" /\ output.op # "new") =>
        /\ \A o \in DOMAIN rdr.str_table :
               \E s \in {WzStr_read(crypto, file, ImgOffset + o)} :
                   s.ok /\ s.v = rdr.str_table[o]
        /\ \A o \in DOMAIN output.before :
               o \in DOMAIN rdr.str_table /\ rdr.str_table[o] = output.before[o]
        /\ (output.op = "read_str" /\ IsInline /\ output.res.ok) =>
               /\ output.at + 1 \in DOMAIN rdr.str_table
               /\ rdr.str_table[output.at + 1] = output.res.v
        /\ (output.op = "read_str" /\ IsRef) =>
               /\ RefTarget \in DOMAIN output.before =>
                      output.res = Ok(output.before[RefTarget])
               /\ RefTarget \notin DOMAIN output.before =>
                      output.res = Err("Missing string at offset")
               /\ rdr.str_table = output.before

C19_Witness ==
    /\ stage = "image"
    /\ output.op = "read_str"
    /\ input.second = "ref_a"
    /\ output.at = SecondPos(crypto, input)
    /\ output.res = Ok(NameA)
    /\ DOMAIN output.before = DOMAIN rdr.str_table
    /\ Cardinality(DOMAIN rdr.str_table) >= 3

C19_WitnessMissing ==
    /\ stage = "image"
    /\ output.op = "read_str"
    /\ input.second = "ref_a"
    /\ output.at = SecondPos(crypto, input)
    /\ ~output.res.ok
    /\ output.before # <<>>

\* the position after the length field of the first entry's value
ObjStart == LenFieldPos(crypto) + 4

\* the property entry at the declared end of the embedded object
EntryAtDeclaredEnd ==
    WzPropertyEntry_read(crypto, file,
        [rdr EXCEPT !.pos = ImgOffset + ObjStart + DeclaredLen(crypto, input)],
        input.checked)

\* C20: after an embedded Obj property value is read, its length field
\* ending at position start, the stream position is start + length, however
\* many bytes the nested parser consumed; the next property entry is parsed
\* from start + length.
C20_SeekToDeclaredEnd ==
    /\ (stage = "image" /\ output.op = "read_obj_value" /\ output.res.ok) =>
           /\ output.res.v.len = DeclaredLen(crypto, input)
           /\ rdr.pos = ImgOffset + ObjStart + DeclaredLen(crypto, input)
    /\ (stage = "image" /\ output.op = "read_root_obj" /\ output.res.ok) =>
           /\ Len(output.res.v.entries) = 2
           /\ output.res.v.entries[1].val.ty = "Obj"
           /\ \E e \in {EntryAtDeclaredEnd} :
                  /\ e.ok
                  /\ e.v = output.res.v.entries[2]
                  /\ e.r.pos = rdr.pos

\* fewer bytes consumed than declared: a canvas with its payload
C20_Witness ==
    /\ stage = "image"
    /\ output.op = "read_root_obj"
    /\ input.kind = "Canvas" /\ input.delta = 2 /\ input.second = "inline"
    /\ output.res.ok
    /\ output.res.v.entries[1].val.obj.ty = "Canvas"
    /\ output.res.v.entries[2] = [name |-> NameB, val |-> [ty |-> "Int", v |-> 7]]

\* more bytes consumed than declared
C20_WitnessMore ==
    /\ stage = "image"
    /\ output.op = "read_root_obj"
    /\ input.kind = "Vec2" /\ input.delta = -2
    /\ output.res.ok

-----------------------------------------------------------------------------
(* Link entries of the root directory *)

\* the four bytes of a Link entry's link offset, after the tag at ent
LinkField(ent) == SubSeq(file, ent + 2, ent + 5)

\* the fields of a Link entry after its link offset, read from the byte
\* after the four
LinkRest(ent) ==
    Try(WzInt_read(file, ent + 5), LAMBDA blob_size :
    Try(WzInt_read(file, blob_size.pos), LAMBDA checksum :
    Try(WzOffset_read(crypto, file, checksum.pos, input.checked), LAMBDA offset :
        Got([blob_size |-> blob_size.v, checksum |-> checksum.v, offset |-> offset.v],
            offset.pos))))

\* C21: a Link entry is read by seeking to data_offset + link_offset, the
\* link offset taken as stored; the byte there is the tag 4 and the image
\* header after it is the linked image; the entry's remaining fields are
\* read from the byte after the four-byte link offset and the following
\* entries from the end of the entry.
C21_LinkEntry ==
    (Opened /\ output.root # None) =>
        /\ output.root.ok
        /\ \A lay \in {LayoutWith(input, crypto)} :
           \A i \in 1..Len(lay.dirs[1]) :
               lay.dirs[1][i].kind = "Link" =>
                   \A ent \in {lay.ent_pos[1][i]} :
                   \A at \in {DataOffsetField + LeVal(LinkField(ent))} :
                   \A rest \in {LinkRest(ent)} :
                       /\ output.root.v[i].tag = "Link"
                       /\ output.root.v[i].hdr.link.offset = LinkField(ent)
                       /\ file[at + 1] = 4
                       /\ Got(output.root.v[i].hdr.link.link_img,
                              at + 1 + EntryLen(crypto, lay.dirs[lay.target[1]][lay.target[2]],
                                                lay.dirs[lay.target[1]][lay.target[2]]) - 1)
                              = WzImgHeader_read(crypto, file, at + 1, input.checked)
                       /\ rest.ok
                       /\ output.root.v[i].hdr.blob_size = rest.v.blob_size
                       /\ output.root.v[i].hdr.checksum = rest.v.checksum
                       /\ output.root.v[i].hdr.offset = rest.v.offset
                       /\ i < Len(lay.dirs[1]) =>
                              /\ lay.ent_pos[1][i + 1] = rest.pos
                              /\ WzDirNode_read(crypto, file, rest.pos, input.checked).ok
                              /\ output.root.v[i + 1]
                                   = WzDirNode_read(crypto, file, rest.pos, input.checked).v

\* a Link in the root directory before another entry, its target after it
\* in the file
C21_Witness ==
    /\ stage = "open"
    /\ output.root # None
    /\ output.root.ok
    /\ \E i \in 1..(Len(output.root.v) - 1) :
           /\ output.root.v[i].tag = "Link"
           /\ output.root.v[i + 1].tag # "Nil"
           /\ \A lay \in {LayoutWith(input, crypto)} :
                  /\ lay.ent_pos[lay.target[1]][lay.target[2]] > lay.ent_pos[1][i]
                  /\ Ok(output.root.v[i].hdr.link.offset)
                       # DecryptedAt(lay.ent_pos[1][i] + 1, lay.ent_pos[1][i] + 1)

-----------------------------------------------------------------------------
(* The driver of the chunked payloads, as tests::chunked: chunks written   *)
(* by write_chunked_data, the stream read back by read_chunked_data with   *)
(* a declared length.                                                      *)

MaxChunks == 3

MaxChunkLen == 3

\* the lengths of the chunks of a list
ChunkLens ==
    UNION {[1..n -> 0..MaxChunkLen] : n \in 0..MaxChunks}

\* chunk k of the list: bytes that tell the chunk and the place in it
ChunkOf(lens, k) == [j \in 1..lens[k] |-> 16 * k + j]

ChunksOf(lens) == <<>> \o [k \in 1..Len(lens) |-> <<>> \o ChunkOf(lens, k)]

\* the bytes the writer emits for the list
WrittenLen(lens) == SumSeq([k \in 1..Len(lens) |-> 4 + lens[k]])

InitChunks ==
    /\ stage = "start"
    /\ input \in {[lens |-> lens, chunked_len |-> n] :
                     lens \in ChunkLens, n \in 0..(MaxChunks * (4 + MaxChunkLen) + 1)}
    /\ input.chunked_len <= WrittenLen(input.lens) + 1
    /\ output = None
    /\ crypto = None
    /\ file = <<>>
    /\ rdr = None
    /\ q = <<>>
    /\ items = <<>>

\* WzCrypto::from_cfg, then write_chunked_data into the cursor
WriteChunked ==
    /\ stage = "start"
    /\ \E c \in {from_cfg([region |-> "GMS", version |-> 95], U32(0))} :
          /\ crypto' = c
          /\ file' = write_chunked_data(c, ChunksOf(input.lens))
    /\ output' = [written |-> WrittenLen(input.lens)]
    /\ stage' = "written"
    /\ UNCHANGED <<input, rdr, q, items>>

\* set_position(0), then read_chunked_data with the declared length
ReadChunked ==
    /\ stage = "written"
    /\ \E r \in {read_chunked_data(crypto, file, 0, input.chunked_len)} :
          /\ output' = [written |-> output.written, res |-> r]
          /\ rdr' = [pos |-> IF r.ok THEN r.pos ELSE 0]
    /\ stage' = "read"
    /\ UNCHANGED <<input, crypto, file, q, items>>

NextChunks == WriteChunked \/ ReadChunked

SpecChunks == InitChunks /\ [][NextChunks]_vars

\* C22: in chunked payload reading a chunk larger than the declared total,
\* or chunks whose size fields and bytes together overrun the declared
\* length, are an error: data is returned only when every chunk read is at
\* most the declared total and the records read end within it.
C22_ChunkErrors ==
    (stage = "read" /\ output.res.ok) =>
        /\ output.res.pos <= input.chunked_len
        /\ \A k \in 1..Len(input.lens) :
               SumSeq([j \in 1..k |-> 4 + input.lens[j]]) <= output.res.pos
                   => input.lens[k] <= input.chunked_len

\* where record k of the written stream starts
RecordAt(lens, k) == SumSeq([j \in 1..(k - 1) |-> 4 + lens[j]])

-----------------------------------------------------------------------------
(* Unsupported sound headers.                                              *)

\* the errors of SoundHeader::read_options that are panics: the todo! of
\* the wave format match and the unwrap of the try_into of the MPEG1 header
SoundPanics == {"not yet implemented: Invalid wave format",
                "unwrap on an Err value"}

\* the headers of the driver that SoundHeader does not support
UnsupportedKinds == {"MajorOther", "SubOther", "WaveOther", "Mpeg1Short"}

\* C23: parsing a sound header reports every unsupported header (another
\* major GUID, another sub-GUID, a wave format that is neither PCM nor MP3,
\* an MPEG1 header that is not 73 bytes long) as an error value, never as a
\* panic.
C23_HeaderErrors ==
    (stage # "start" /\ input.kind \in UnsupportedKinds) =>
        /\ stage = "failed"
        /\ ~output.sound.ok
        /\ output.sound.err \notin SoundPanics

-----------------------------------------------------------------------------
(* The writer of type strings: WzTypeStr::write_options with the write     *)
(* table of the image writer, and the reader on what it wrote.             *)

\* WzStrWriteTable::get
WzStrWriteTable_get(t, str) ==
    IF str \in DOMAIN t THEN Ok(t[str]) ELSE None

\* WzStrWriteTable::insert
WzStrWriteTable_insert(t, str, offset) ==
    [k \in DOMAIN t \cup {str} |-> IF k = str THEN offset ELSE t[k]]

\* BinWrite for WzTypeStr: the bytes it writes
WzTypeStr_write(c, t, str) ==
    IF WzStrWriteTable_get(t, str) # None
    THEN <<115>> \o U32(WzStrWriteTable_get(t, str).v)
    ELSE <<27>> \o WzStr_write(c, str)

\* BinWrite for WzImgStr: the bytes it writes
WzImgStr_write(c, t, str) ==
    IF WzStrWriteTable_get(t, str) # None
    THEN <<1>> \o U32(WzStrWriteTable_get(t, str).v)
    ELSE <<0>> \o WzStr_write(c, str)

\* the type strings the object writer writes
TypeStrs == {OBJ_TYPE_PROPERTY, OBJ_TYPE_CANVAS, OBJ_TYPE_UOL}

MaxTypeStrs == 2

\* the strings written one after the other; `inserts` tells whether the
\* caller records each written string in the write table (nothing in the
\* crate calls WzStrWriteTable::insert); `form` is the string type
InitTypeStr ==
    /\ stage = "writing"
    /\ input \in [strs : UNION {[1..n -> TypeStrs] : n \in 1..MaxTypeStrs},
                  inserts : BOOLEAN, form : {"type", "img"}]
    /\ crypto = from_cfg([region |-> "GMS", version |-> 95], U32(0))
    /\ file = <<>>
    /\ q = input.strs
    /\ output = [table |-> <<>>, starts |-> <<>>]
    /\ rdr = None
    /\ items = <<>>

\* write_le_args of the next string with the builder's ctx
WriteTypeStr ==
    /\ stage = "writing"
    /\ q # <<>>
    /\ file' = file \o (IF input.form = "type"
                        THEN WzTypeStr_write(crypto, output.table, Head(q))
                        ELSE WzImgStr_write(crypto, output.table, Head(q)))
    /\ output' = [table |-> IF input.inserts /\ Head(q) \notin DOMAIN output.table
                            THEN WzStrWriteTable_insert(output.table, Head(q),
                                                        Len(file) + 1)
                            ELSE output.table,
                  starts |-> Append(output.starts, Len(file))]
    /\ q' = Tail(q)
    /\ UNCHANGED <<stage, input, crypto, rdr, items>>

\* WzImgReader::new on what was written
OpenWritten ==
    /\ stage = "writing"
    /\ q = <<>>
    /\ rdr' = [pos |-> 0, sub |-> SubReader_new(0, Len(file)), str_table |-> <<>>]
    /\ stage' = "reading"
    /\ UNCHANGED <<input, output, crypto, file, q, items>>

\* read_options of the next string with the reader's ctx
ReadTypeStr ==
    /\ stage = "reading"
    /\ \E res \in {IF input.form = "type" THEN WzTypeStr_read(crypto, file, rdr, TRUE)
                   ELSE WzImgStr_read(crypto, file, rdr, TRUE)} :
          /\ items' = Append(items, IF res.ok THEN Ok(res.v) ELSE Err(res.err))
          /\ rdr' = res.r
          /\ stage' = IF ~res.ok THEN "failed"
                      ELSE IF Len(items) + 1 = Len(input.strs) THEN "done"
                      ELSE "reading"
    /\ UNCHANGED <<input, output, crypto, file, q>>

NextTypeStr == WriteTypeStr \/ OpenWritten \/ ReadTypeStr

SpecTypeStr == InitTypeStr /\ [][NextTypeStr]_vars

\* string k is the first occurrence of its value in the list
FirstOccurrence(strs, k) == \A j \in 1..(k - 1) : strs[j] # strs[k]

\* C24: type strings are written with the magic bytes the reader dispatches
\* on: the first occurrence as 0x73 followed by the string, a later one as
\* 0x1B followed by a 4-byte offset, so that what WzTypeStr::write_options
\* wrote is read back by WzTypeStr::read_options as an equal string.
C24_TypeStrRoundTrip ==
    input.form = "type" =>
        /\ \A k \in 1..Len(output.starts) :
              file[output.starts[k] + 1]
                  = (IF FirstOccurrence(input.strs, k) THEN 115 ELSE 27)
        /\ stage # "failed"
        /\ \A k \in 1..Len(items) : items[k] = Ok(input.strs[k])

-----------------------------------------------------------------------------
(* The depth and the scale of a canvas header.                             *)

\* From<WzCanvasDepth> for WzInt
WzInt_from_WzCanvasDepth(depth) ==
    CASE depth = "BGRA4444" -> 1
      [] depth = "BGRA8888" -> 2
      [] depth = "BGR565"   -> 513
      [] depth = "DXT3"     -> 1026
      [] depth = "DXT5"     -> 2050

\* the depth tags of the format
DepthTags == {1, 2, 513, 1026, 2050}

\* the i32 values the depth field holds in the headers of the driver: the
\* tags, their neighbours, and values that share their low 16 bits with
\* a tag
DepthValues ==
    DepthTags \cup {0, 3, 512, 514, 1025, 2051, -1, 65536, 2147483647}
        \cup {65536 + 1, 131072 + 2, 65536 + 513, 1026 - 65536, 2050 - 2147483647 - 1}

ScaleValues == {0, 4, 1, 2, 3, 5, 8, 255}

\* the bytes of a WzCanvas without a property
CanvasHeader(in) ==
    <<0, 0>> \o WzInt_write(2) \o WzInt_write(2) \o WzInt_write(in.depth)
        \o <<in.scale>> \o U32(0) \o U32(9)

InitDepth ==
    /\ stage = "start"
    /\ input \in [depth : DepthValues, scale : ScaleValues]
    /\ crypto = from_cfg([region |-> "GMS", version |-> 95], U32(0))
    /\ file = CanvasHeader(input)
    /\ rdr = [pos |-> 0, sub |-> SubReader_new(0, Len(file)), str_table |-> <<>>]
    /\ output = None
    /\ q = <<>>
    /\ items = <<>>

\* WzCanvas::read_options on the header
ReadCanvasHeader ==
    /\ stage = "start"
    /\ \E res \in {WzCanvas_read(crypto, file, rdr, TRUE)} :
          /\ output' = [res |-> IF res.ok THEN Ok(res.v) ELSE Err(res.err)]
          /\ rdr' = res.r
          /\ stage' = IF res.ok THEN "header" ELSE "failed"
    /\ UNCHANGED <<input, crypto, file, q, items>>

\* WzInt::from of the depth that was read
DepthToTag ==
    /\ stage = "header"
    /\ output' = [res |-> output.res,
                  tag |-> WzInt_from_WzCanvasDepth(output.res.v.depth)]
    /\ stage' = "tag"
    /\ UNCHANGED <<input, crypto, file, rdr, q, items>>

NextDepth == ReadCanvasHeader \/ DepthToTag

SpecDepth == InitDepth /\ [][NextDepth]_vars

\* C25: a canvas header is accepted only when its depth is exactly one of
\* 1, 2, 513, 1026, 2050 and its scale is 0 or 4; every other depth value
\* (also one that agrees with a tag in its low 16 bits only) is a depth
\* error and every other scale a scale error; and an accepted depth
\* converted back gives the tag that was read.
C25_DepthAndScale ==
    /\ stage # "start" =>
          /\ output.res.ok <=> (input.depth \in DepthTags /\ input.scale \in {0, 4})
          /\ input.depth \notin DepthTags =>
                output.res = Err("Invalid canvas depth")
          /\ (input.depth \in DepthTags /\ input.scale \notin {0, 4}) =>
                output.res = Err("Invalid scaling")
    /\ stage = "tag" => output.tag = input.depth

-----------------------------------------------------------------------------
(* canvas.rs: the pixel conversions on their own, as tests::bit_pix_.      *)

\* the words of the driver: those of the tests, the ends of the u16 range,
\* words with alternating channels, and words above 16 bits
PixWords == {0, 1, 4660, 4671, 32768, 61680, 3855, 65535, 43690,
             305419896, 2147483647}

\* the shifts of the driver: those of the pixel formats, and larger ones
PixShifts == {0, 4, 5, 8, 11, 12, 16, 30}

InitPix ==
    /\ stage = "start"
    /\ input \in [N : 1..8, v : PixWords, shift : PixShifts]
    /\ output = None
    /\ crypto = None
    /\ file = <<>>
    /\ rdr = None
    /\ q = <<>>
    /\ items = <<>>

\* bit_pix::<N>(v, shift)
BitPix ==
    /\ stage = "start"
    /\ output' = [op |-> "bit_pix", res |-> bit_pix(input.N, input.v, input.shift)]
    /\ stage' = "done"
    /\ UNCHANGED <<input, crypto, file, rdr, q, items>>

\* bgra4_to_rgba8 of a u16
Bgra4ToRgba8 ==
    /\ stage = "start"
    /\ input.v < 65536
    /\ output' = [op |-> "bgra4", px |-> bgra4_to_rgba8(input.v)]
    /\ stage' = "done"
    /\ UNCHANGED <<input, crypto, file, rdr, q, items>>

\* bgr565_to_rgba8 of a u16
Bgr565ToRgba8 ==
    /\ stage = "start"
    /\ input.v < 65536
    /\ output' = [op |-> "bgr565", px |-> bgr565_to_rgba8(input.v)]
    /\ stage' = "done"
    /\ UNCHANGED <<input, crypto, file, rdr, q, items>>

NextPix == BitPix \/ Bgra4ToRgba8 \/ Bgr565ToRgba8

SpecPix == InitPix /\ [][NextPix]_vars

\* bit i of a word below 2^31
BitOf(v, i) == IF i > 30 THEN 0 ELSE (v \div Pow2(i)) % 2

\* the n bits of v from bit `from` on, as a number
BitsOf(v, from, n) == SumSeq([i \in 1..n |-> BitOf(v, from + i - 1) * Pow2(i - 1)])

\* C27: bit_pix::<N>(v, shift) is ((v >> shift) & (2^N - 1)) * 2^(8 - N)
\* for N in 1..=8 and is at most 255; bgra4_to_rgba8 gives (r, g, b, a) with
\* each 4-bit channel shifted left by 4; bgr565_to_rgba8 expands the
\* channels of 5, 6 and 5 bits and sets alpha to 255.
C27_PixelExpand ==
    /\ (stage = "done" /\ output.op = "bit_pix") =>
          /\ output.res = BitsOf(input.v, input.shift, input.N) * Pow2(8 - input.N)
          /\ output.res \in 0..255
    /\ (stage = "done" /\ output.op = "bgra4") =>
          output.px = <<BitsOf(input.v, 8, 4) * 16, BitsOf(input.v, 4, 4) * 16,
                         BitsOf(input.v, 0, 4) * 16, BitsOf(input.v, 12, 4) * 16>>
    /\ (stage = "done" /\ output.op = "bgr565") =>
          output.px = <<BitsOf(input.v, 11, 5) * 8, BitsOf(input.v, 5, 6) * 4,
                         BitsOf(input.v, 0, 5) * 8, 255>>

\* the examples: bit_pix::<4>(0x1234, 8) == 0x20
C27_Witness ==
    /\ stage = "done" /\ output.op = "bit_pix"
    /\ input.N = 4 /\ input.v = 4660 /\ input.shift = 8
    /\ output.res = 32

\* bit_pix::<3>(0x123F, 0) == 224
C27_Witness3 ==
    /\ stage = "done" /\ output.op = "bit_pix"
    /\ input.N = 3 /\ input.v = 4671 /\ input.shift = 0
    /\ output.res = 224

\* bit_pix::<8>(0x1234, 8) == 0x12
C27_Witness8 ==
    /\ stage = "done" /\ output.op = "bit_pix"
    /\ input.N = 8 /\ input.v = 4660 /\ input.shift = 8
    /\ output.res = 18

\* a BGRA4444 and a BGR565 pixel with every channel different
C27_WitnessPixels ==
    /\ stage = "done" /\ input.v = 4660
    /\ \/ output.op = "bgra4" /\ output.px = <<32, 48, 64, 16>>
       \/ output.op = "bgr565" /\ output.px = <<16, 68, 160, 255>>

-----------------------------------------------------------------------------
(* The pixel indices of to_raw_rgba_image.                                 *)

IndexedDepths == {"BGRA4444", "BGRA8888", "BGR565"}

\* the pixel that the word at index ix of the bitmap converts to
PixelOfWord(cv, ix) ==
    IF cv.depth = "BGRA8888" THEN bgra8_to_rgba8(SubSeq(cv.data, 4 * ix + 1, 4 * ix + 4))
    ELSE IF cv.depth = "BGRA4444"
    THEN bgra4_to_rgba8(LeVal(SubSeq(cv.data, 2 * ix + 1, 2 * ix + 2)))
    ELSE bgr565_to_rgba8(LeVal(SubSeq(cv.data, 2 * ix + 1, 2 * ix + 2)))

\* pixel (x, y) of an image
PixelAt(img, x, y) == SubSeq(img.buf, 4 * (x + y * img.w) + 1, 4 * (x + y * img.w) + 4)

\* C28: when to_raw_rgba_image decodes a BGRA4444, BGRA8888 or BGR565
\* canvas, every pixel index it reads lies inside the bitmap of
\* raw_width * raw_height pixels, for the scales 0 and 4 and all widths and
\* heights, and output pixel (x, y) is the one of source index
\* x + y * raw_width.
C28_PixelIndices ==
    (stage = "image" /\ input.canvas.depth \in IndexedDepths) =>
        /\ output.img # Err("index out of bounds")
        /\ output.img.ok =>
              \A x \in 0..(output.img.v.w - 1), y \in 0..(output.img.v.h - 1) :
                  PixelAt(output.img.v, x, y)
                      = PixelOfWord(output.canvas, x + y * output.canvas.raw_w)

-----------------------------------------------------------------------------
(* file.rs: read_root_obj, read_canvas and read_sound called on one image  *)
(* reader in every order.                                                  *)

\* WzImgReader::read_canvas through the reader r: the results, each with
\* the position the reader is left at.  The zlib decoder takes its input
\* through a buffer, so it leaves the reader somewhere between the header
\* and the end of the payload.
WzImgReader_read_canvas(c, data, r, align, canvas, checked) ==
    Bind(data_len(canvas), LAMBDA len :
    Bind(SubReader_seek(r.sub, data, r.pos,
                        [from |-> "Start", p |-> data_offset(canvas)], checked),
         LAMBDA sk :
        IF ~sk.res.ok THEN {[res |-> sk.res, pos |-> sk.pos]}
        ELSE
    Bind(peek_u16(data, sk.pos), LAMBDA hdr :
        IF ~hdr.ok THEN {[res |-> hdr, pos |-> sk.pos]}
        ELSE IF hdr.v % 256 = 120 /\ (hdr.v \div 8192) % 2 = 0
        THEN {[res |-> read_canvas_from(take(data, sk.pos, len), align, canvas),
               pos |-> p] :
                 p \in {sk.pos + 2, sk.pos + Len(take(data, sk.pos, len))}}
        ELSE Bind(read_chunked_data(c, data, sk.pos, len), LAMBDA buf :
                 IF ~buf.ok THEN {[res |-> buf, pos |-> sk.pos]}
                 ELSE {[res |-> read_canvas_from(buf.v, align, canvas),
                        pos |-> buf.pos]}))))

MaxCalls == 3

OrderPixels == <<11, 22, 33, 44>>

\* the canvas object of the image: one BGRA8888 pixel, its payload a zlib
\* stream as it is or in one chunk
OrderCanvas(c, in) ==
    Bind(IF in.payload = "zlib" THEN zlib_stored(1, OrderPixels)
         ELSE write_chunked_data(c, <<zlib_stored(1, OrderPixels)>>), LAMBDA payload :
        TypeStrInline(c, OBJ_TYPE_CANVAS) \o <<0, 0>>
            \o WzInt_write(1) \o WzInt_write(1) \o WzInt_write(2) \o <<0>>
            \o U32(0) \o U32(Len(payload) + 1) \o <<0>> \o payload)

\* the sound object of the image and its payload
OrderSound(c, in) ==
    TypeStrInline(c, OBJ_TYPE_SOUND_DX8)
        \o SoundBody([kind |-> in.sound, size |-> 3]) \o <<51, 52, 53>>

\* the image: a root Property of a canvas and a sound
OrderImage(c, in) ==
    RootHead(c) \o ImgStrInline(c, NameA) \o <<9>>
        \o U32(Len(OrderCanvas(c, in))) \o OrderCanvas(c, in)
        \o (IF in.second = "inline" THEN ImgStrInline(c, NameB)
            ELSE ImgStrRef(IF in.second = "ref" THEN NameAPos(c) + 1 ELSE 200))
        \o <<9>> \o U32(Len(OrderSound(c, in))) \o OrderSound(c, in)

InitOrder ==
    /\ stage = "image"
    /\ input \in [payload : {"zlib", "chunked"}, sound : {"Mpeg3", "Pcm"},
                  second : {"inline", "ref", "ref_unseen"}, offset : {0, ImgOffset}]
    /\ crypto = from_cfg([region |-> "GMS", version |-> 95], U32(0))
    /\ file = Fill(input.offset, 9) \o OrderImage(crypto, input)
    /\ rdr = [pos |-> input.offset,
              sub |-> SubReader_new(input.offset, Len(file) - input.offset),
              str_table |-> <<>>]
    /\ output = None
    /\ q = <<>>
    /\ items = <<>>

\* the reader as WzImgReader::new makes it
FreshReader ==
    [pos |-> input.offset,
     sub |-> SubReader_new(input.offset, Len(file) - input.offset),
     str_table |-> <<>>]

\* the headers of the calls: those of the root object, and one that was
\* not read from this image
CanvasHeaders ==
    Bind(read_root_obj(crypto, file, FreshReader, TRUE), LAMBDA root :
        {[width |-> 1, height |-> 1, depth |-> "BGRA8888", scale |-> 0,
          len |-> [val |-> 5, pos |-> 3]]}
        \cup (IF root.ok THEN {root.v.entries[1].val.obj} ELSE {}))

SoundHeaders ==
    Bind(read_root_obj(crypto, file, FreshReader, TRUE), LAMBDA root :
        {[size |-> 2, len_ms |-> 0, fmt |-> "Mpeg3", pos |-> 4]}
        \cup (IF root.ok THEN {root.v.entries[2].val.obj.sound} ELSE {}))

\* one call on the reader r: its results, each with the reader after it
CallOn(r, call) ==
    CASE call.op = "read_root_obj" ->
             {[res |-> IF x.ok THEN Ok(x.v) ELSE Err(x.err), r |-> x.r] :
                 x \in {read_root_obj(crypto, file, r, TRUE)}}
      [] call.op = "read_canvas" ->
             {[res |-> x.res, r |-> [r EXCEPT !.pos = x.pos]] :
                 x \in WzImgReader_read_canvas(crypto, file, r, 4, call.hdr, TRUE)}
      [] call.op = "read_sound" ->
             {[res |-> x.res, r |-> [r EXCEPT !.pos = x.pos]] :
                 x \in {read_sound(r, file, call.hdr, TRUE)}}

\* WzImgReader::read_root_obj
CallReadRootObj ==
    /\ stage = "image"
    /\ Len(items) < MaxCalls
    /\ \E call \in {[op |-> "read_root_obj"]} :
       \E x \in CallOn(rdr, call) :
          /\ items' = Append(items, [call |-> call, res |-> x.res, from |-> rdr.pos])
          /\ rdr' = x.r
    /\ UNCHANGED <<stage, input, output, crypto, file, q>>

\* WzImgReader::read_canvas
CallReadCanvas ==
    /\ stage = "image"
    /\ Len(items) < MaxCalls
    /\ \E hdr \in CanvasHeaders :
       \E call \in {[op |-> "read_canvas", hdr |-> hdr]} :
       \E x \in CallOn(rdr, call) :
          /\ items' = Append(items, [call |-> call, res |-> x.res, from |-> rdr.pos])
          /\ rdr' = x.r
    /\ UNCHANGED <<stage, input, output, crypto, file, q>>

\* WzImgReader::read_sound
CallReadSound ==
    /\ stage = "image"
    /\ Len(items) < MaxCalls
    /\ \E hdr \in SoundHeaders :
       \E call \in {[op |-> "read_sound", hdr |-> hdr]} :
       \E x \in CallOn(rdr, call) :
          /\ items' = Append(items, [call |-> call, res |-> x.res, from |-> rdr.pos])
          /\ rdr' = x.r
    /\ UNCHANGED <<stage, input, output, crypto, file, q>>

NextOrder == CallReadRootObj \/ CallReadCanvas \/ CallReadSound

SpecOrder == InitOrder /\ [][NextOrder]_vars

\* the value of a call made alone on a fresh reader
AloneOnFresh(call) == {x.res : x \in CallOn(FreshReader, call)}

\* C29: on one image reader over an unchanging input the results of
\* read_root_obj(), read_canvas(c) and read_sound(s) do not depend on the
\* order of the calls nor on where earlier calls left the cursor: in every
\* interleaving each call returns what it returns alone on a fresh reader.
C29_OrderIndependent ==
    \A k \in 1..Len(items) : AloneOnFresh(items[k].call) = {items[k].res}

\* a sound, then a canvas, then the root object, each read from where the
\* call before it left the reader
C29_Witness ==
    /\ Len(items) = 3
    /\ items[1].call.op = "read_sound" /\ items[1].res.ok
    /\ items[2].call.op = "read_canvas" /\ items[2].res.ok
    /\ items[2].res.v.data = OrderPixels
    /\ items[3].call.op = "read_root_obj" /\ items[3].res.ok
    /\ items[2].from # input.offset
    /\ items[3].from # input.offset
    /\ items[3].from # items[2].from

-----------------------------------------------------------------------------
(* file.rs: the traversal to its end, also on archives with a directory    *)
(* that cannot be read.                                                    *)

\* the bytes s with those at stream position pos replaced
SetBytes(s, pos, bytes) ==
    [i \in 1..Len(s) |->
        IF pos < i /\ i <= pos + Len(bytes) THEN bytes[i - pos] ELSE s[i]]

\* what can be wrong with an archive of the driver: nothing; the tag of the
\* first entry of directory `at` is no entry tag; the first Link points at
\* a byte that is not the tag of an image
Damages(in) ==
    Bind(ArchDirs(in), LAMBDA dirs :
        {[kind |-> "none", at |-> 0]}
        \cup {[kind |-> "bad_tag", at |-> k] : k \in {k \in 1..Len(dirs) : dirs[k] # <<>>}}
        \cup (IF Places(dirs, {"Link"}) # <<>> THEN {[kind |-> "bad_link", at |-> 0]}
              ELSE {}))

DamagedBytes(in) ==
    Bind(Layout(in), LAMBDA lay :
        CASE in.damage.kind = "none" -> ArchiveBytes(in)
          [] in.damage.kind = "bad_tag" ->
                 SetBytes(ArchiveBytes(in), lay.ent_pos[in.damage.at][1], <<9>>)
          [] in.damage.kind = "bad_link" ->
                 Bind(Places(lay.dirs, {"Link"})[1], LAMBDA p :
                     SetBytes(ArchiveBytes(in), lay.ent_pos[p[1]][p[2]] + 1, U32(0))))

\* Iterator::next of WzImgTraverser with a record of what it does: for each
\* entry popped, the entry, what handle_dir pushed for it, and whether its
\* directory was read
RECURSIVE next_traced(_, _, _, _, _, _)
next_traced(c, data, pos, queue, checked, trace) ==
    IF queue = <<>> THEN [item |-> None, q |-> queue, pos |-> pos, trace |-> trace]
    ELSE Bind(Head(queue), LAMBDA front :
         Bind(Tail(queue), LAMBDA rest :
             CASE front.node.tag = "Dir" ->
                      Bind(handle_dir(c, data, rest, front.root_name,
                                      front.node.hdr, checked), LAMBDA h :
                          IF ~h.ok
                          THEN [item |-> h, q |-> rest,
                                pos |-> Pos(front.node.hdr.offset),
                                trace |-> Append(trace, [entry |-> front, pushed |-> <<>>,
                                                         read |-> "failed"])]
                          ELSE next_traced(c, data, h.pos, h.q, checked,
                                   Append(trace,
                                          [entry |-> front,
                                           pushed |-> SubSeq(h.q, Len(rest) + 1, Len(h.q)),
                                           read |-> "ok"])))
               [] front.node.tag = "Img" ->
                      [item |-> img_item(front.root_name, front.node.hdr),
                       q |-> rest, pos |-> pos,
                       trace |-> Append(trace, [entry |-> front, pushed |-> <<>>,
                                                read |-> "none"])]
               [] front.node.tag = "Link" ->
                      [item |-> link_item(front.root_name, front.node.hdr),
                       q |-> rest, pos |-> pos,
                       trace |-> Append(trace, [entry |-> front, pushed |-> <<>>,
                                                read |-> "none"])]
               [] OTHER ->
                      next_traced(c, data, pos, rest, checked,
                                  Append(trace, [entry |-> front, pushed |-> <<>>,
                                                 read |-> "none"]))))

InitTraverse ==
    /\ stage = "start"
    /\ \E shape \in ArchiveShapes, checked \in BOOLEAN :
       \E in \in {With(shape, 95, 95, PKG1, checked)} :
       \E d \in Damages(in) :
          input = [seed |-> in.seed, root_len |-> in.root_len, sub_len |-> in.sub_len,
                   leaf_len |-> in.leaf_len, link |-> in.link, region |-> in.region,
                   desc |-> in.desc, version |-> in.version,
                   cfg_version |-> in.cfg_version, magic |-> in.magic,
                   checked |-> in.checked, damage |-> d]
    /\ output = None
    /\ crypto = None
    /\ file = DamagedBytes(input)
    /\ rdr = None
    /\ q = <<>>
    /\ items = <<>>

\* WzReader::traverse_images; the record of the traversal starts with the
\* queue it makes
TraverseImagesTraced ==
    /\ stage = "open"
    /\ \E t \in {traverse_images(rdr, input.checked)} :
       IF t.ok
       THEN /\ q' = t.v
            /\ stage' = "traversing"
            /\ output' = [open |-> output.open, root |-> output.root,
                          first |-> t.v, trace |-> <<>>, calls |-> 0]
       ELSE q' = q /\ stage' = "panicked" /\ output' = output
    /\ UNCHANGED <<input, crypto, file, rdr, items>>

\* one call of WzImgTraverser::next, recorded
IterNextTraced ==
    /\ stage = "traversing"
    /\ \E n \in {next_traced(crypto, file, rdr.pos, q, input.checked, <<>>)} :
       IF n.item = None
       THEN /\ stage' = "done"
            /\ q' = n.q
            /\ rdr' = [rdr EXCEPT !.pos = n.pos]
            /\ items' = items
            /\ output' = [output EXCEPT !.trace = @ \o n.trace, !.calls = @ + 1]
       ELSE IF ~n.item.ok /\ n.item.err \in Panics
       THEN /\ stage' = "panicked"
            /\ UNCHANGED <<q, rdr, items, output>>
       ELSE /\ stage' = stage
            /\ q' = n.q
            /\ rdr' = [rdr EXCEPT !.pos = n.pos]
            /\ items' = Append(items, n.item)
            /\ output' = [output EXCEPT !.trace = @ \o n.trace, !.calls = @ + 1]
    /\ UNCHANGED <<input, crypto, file>>

NextTraverse == Open \/ TraverseImagesTraced \/ IterNextTraced

SpecTraverse == InitTraverse /\ [][NextTraverse]_vars

Traversed == stage \in {"traversing", "done"}

\* every entry that was ever queued, in the order of queueing
AllQueued ==
    output.first \o Concat([k \in 1..Len(output.trace) |-> output.trace[k].pushed])

Popped == [k \in 1..Len(output.trace) |-> output.trace[k].entry]

\* every queued entry is popped once, in the order of queueing, and the
\* ones not yet popped are the queue
PoppedOnce == <<>> \o Popped \o q = AllQueued

\* a directory is read when its entry is popped, and no directory twice
ReadOnce ==
    /\ \A k \in 1..Len(output.trace) :
           (output.trace[k].entry.node.tag = "Dir") <=> (output.trace[k].read # "none")
    /\ \A j, k \in 1..Len(output.trace) :
           (/\ j # k
            /\ output.trace[j].read # "none"
            /\ output.trace[k].read # "none")
               => output.trace[j].entry.node.hdr.offset
                      # output.trace[k].entry.node.hdr.offset

\* an Err item is a directory that could not be read: nothing of it is
\* queued, nothing else is lost, and every Img and Link popped is an item
ErrDropsOneDir ==
    /\ Len(SelectSeq(items, LAMBDA it : ~it.ok))
           = Len(SelectSeq(output.trace, LAMBDA t : t.read = "failed"))
    /\ Len(SelectSeq(items, LAMBDA it : it.ok))
           = Len(SelectSeq(output.trace, LAMBDA t : t.entry.node.tag \in {"Img", "Link"}))
    /\ \A k \in 1..Len(output.trace) :
           output.trace[k].read = "ok" =>
               Len(output.trace[k].pushed)
                   = Len(read_dir_node(crypto, file, output.trace[k].entry.node.hdr,
                                       input.checked).v)

\* the traversal so far is what next() computes
TraceAgrees ==
    stage = "traversing" =>
        \E n \in {next(crypto, file, rdr.pos, q, input.checked)} :
        \E t \in {next_traced(crypto, file, rdr.pos, q, input.checked, <<>>)} :
            n.item = t.item /\ n.q = t.q /\ n.pos = t.pos

TraverseSafe ==
    Traversed => PoppedOnce /\ ReadOnce /\ ErrDropsOneDir /\ (stage = "done" => q = <<>>)

\* the entries the archive of the driver has in all its directories
ArchEntries == Len(Concat(ArchDirs(input)))

\* the calls come to an end: a call that does not return None pops an entry,
\* and no more entries are ever queued than the tree has (and its root), so
\* that the call after at most that many returns None
CallsBounded ==
    Traversed =>
        /\ output.calls <= Len(output.trace) + 1
        /\ (stage = "traversing" => output.calls <= Len(output.trace))
        /\ Len(AllQueued) <= ArchEntries + 1

\* C30: on an archive whose directories form a finite tree, repeated calls
\* of the traverse_images iterator eventually return None (every call
\* returns, and their number is bounded by the entries of the tree); each
\* directory is read once, every queued entry is popped once, and an Err
\* item for a directory that cannot be read drops that directory only,
\* later calls going on with the entries still queued.
C30_TraversalEnds ==
    /\ stage # "panicked"
    /\ TraverseSafe
    /\ CallsBounded

=============================================================================
